---- MODULE Spec2Model ----
(***************************************************************************)
(* A model of the JSON viewer's engine: JsonParser (utils/jsonParser.ts),  *)
(* the analytics sink it calls (utils/analytics.ts) and the path lookup of *)
(* the table view (components/JsonTableView.tsx).                          *)
(*                                                                         *)
(* Keys, paths, queries and scalar texts are strings, and concatenation,   *)
(* startsWith, includes, split and toLowerCase are computed character by   *)
(* character as the code computes them.                                    *)
(***************************************************************************)
EXTENDS Integers, Sequences, FiniteSets, TLC

VARIABLES
  parseResult,   \* the ParseResult of parseJson; the client keeps its data
  nodes,         \* the flattened JsonNode[] the client holds
  matchIndices,  \* matchIndices of the last searchNodes call (0-based)
  events,        \* what trackEvent received during the last call, in order
  selectedNodePath,  \* the path the table view shows; "" when none is selected
  inputText,     \* the text given to parseJson, when the client parsed a text
  firstError,    \* what the strict parser threw for it at Stage 0
  attempted,     \* the stages of the last parseJson call, in order
  throwsOn,      \* the event name at which trackEvent throws; "none" for none
  threw,         \* the last call threw to the client instead of returning
  stats,         \* this.stats of the JsonParser
  retained,      \* the array passed to the last editor call: before, after it
  app            \* the state of App (App.tsx): nodes, filteredNodes,
                 \* originalNodes, searchQuery, caseSensitive,
                 \* searchMatchIndices, currentMatchIndex, selectedNodePath

vars == <<parseResult, nodes, matchIndices, events, selectedNodePath,
          inputText, firstError, attempted, throwsOn, threw, stats,
          retained, app>>

----------------------------------------------------------------------------
(* Bounds of the model *)

\* every JSON document of at most this many tree positions (root included)
MaxNodes == 4

----------------------------------------------------------------------------
(* Strings *)

RootKey == "root"

Digit == <<"0", "1", "2", "3", "4", "5", "6", "7", "8", "9">>

\* String(n) for a non-negative integer
RECURSIVE NatToString(_)
NatToString(n) ==
  IF n < 10 THEN Digit[n + 1]
  ELSE NatToString(n \div 10) \o Digit[(n % 10) + 1]

\* s.charAt(i - 1): the i-th character
CharAt(s, i) == SubSeq(s, i, i)

\* String.prototype.startsWith
startsWith(s, prefix) ==
  /\ Len(prefix) <= Len(s)
  /\ SubSeq(s, 1, Len(prefix)) = prefix

\* String.prototype.includes
includes(s, sub) ==
  \E i \in 0..(Len(s) - Len(sub)) : SubSeq(s, i + 1, i + Len(sub)) = sub

\* the lower case of a character of the documents, queries and messages
LowerOf(c) ==
  IF c = "A" THEN "a"
  ELSE IF c = "U" THEN "u"
  ELSE IF c = "J" THEN "j"
  ELSE IF c = "S" THEN "s"
  ELSE IF c = "O" THEN "o"
  ELSE IF c = "N" THEN "n"
  ELSE c

\* String.prototype.toLowerCase
RECURSIVE toLowerCase(_)
toLowerCase(s) ==
  IF s = "" THEN ""
  ELSE LowerOf(CharAt(s, 1)) \o toLowerCase(SubSeq(s, 2, Len(s)))

IsSpace(c) == c \in {" ", "\t", "\n", "\r"}

\* !s.trim(): the string is empty or whitespace only
IsBlank(s) == \A i \in 1..Len(s) : IsSpace(CharAt(s, i))

\* String.prototype.split(sep) for a one-character separator: the parts of
\* s from character `from` on, the current part having begun at `start`
RECURSIVE splitFrom(_, _, _, _)
splitFrom(s, sep, start, from) ==
  IF from > Len(s) THEN <<SubSeq(s, start, Len(s))>>
  ELSE IF CharAt(s, from) = sep
       THEN <<SubSeq(s, start, from - 1)>> \o splitFrom(s, sep, from + 1, from + 1)
       ELSE splitFrom(s, sep, start, from + 1)

split(s, sep) == splitFrom(s, sep, 1, 1)

----------------------------------------------------------------------------
(* JsonValue (types/json.ts).  A value is a record: its runtime type, the  *)
(* text String(value) of a string, number or boolean, and the entries of   *)
(* an object (in Object.keys order) or the items of an array.              *)

Scalar(t, text) == [type |-> t, text |-> text, kids |-> <<>>]
Obj(entries) == [type |-> "object", text |-> "", kids |-> entries]
Arr(items) ==
  [type |-> "array", text |-> "",
   kids |-> [i \in 1..Len(items) |-> [key |-> "", val |-> items[i]]]]

NoData == [type |-> "undefined", text |-> "", kids |-> <<>>]

\* object keys of the documents
Keys == {"a", "a.a"}

\* the values without children
Leaves ==
  { Scalar("string", "A"),
    Obj(<<>>) }

\* the sequences of n distinct keys
KeySeqs(n) ==
  { ks \in [1..n -> Keys] : \A i, j \in 1..n : i # j => ks[i] # ks[j] }

RECURSIVE ValuesOfSize(_), ItemsOfSize(_, _)
\* the values with exactly n tree positions
ValuesOfSize(n) ==
  IF n = 1 THEN Leaves
  ELSE UNION { LET items == ItemsOfSize(m, n - 1)
               IN { Arr(it) : it \in items } \cup
                  { Obj([i \in 1..m |-> [key |-> ks[i], val |-> it[i]]]) :
                      ks \in KeySeqs(m), it \in items }
               : m \in 1..(n - 1) }
\* the sequences of m values with k tree positions in all
ItemsOfSize(m, k) ==
  IF m = 0 THEN (IF k = 0 THEN {<<>>} ELSE {})
  ELSE UNION { { <<v>> \o rest : v \in ValuesOfSize(j),
                                 rest \in ItemsOfSize(m - 1, k - j) }
               : j \in 1..(k - (m - 1)) }

\* the documents a parse can produce
Docs == UNION { ValuesOfSize(n) : n \in 1..MaxNodes }

----------------------------------------------------------------------------
(* References into the Value tree.  JsonNode.value is a reference to a     *)
(* part of the parsed value, never a copy: it is modelled as the position  *)
(* of that part, the sequence of child indices (1-based) leading to it     *)
(* from the root of data.                                                  *)

RECURSIVE ValueIn(_, _)
ValueIn(v, ref) ==
  IF ref = <<>> THEN v ELSE ValueIn(v.kids[Head(ref)].val, Tail(ref))

ValueAt(ref) == ValueIn(parseResult.data, ref)

\* the key under which child i of the container at ref is visited:
\* `[${index}]` for an array item, the property name for an object entry
ChildKey(ref, i) ==
  IF ValueAt(ref).type = "array"
  THEN "[" \o NatToString(i - 1) \o "]"
  ELSE ValueAt(ref).kids[i].key

getValueType(value) == ValueAt(value).type

IsContainerType(type) == type \in {"object", "array"}

\* childCount is optional: <<>> when absent, <<n>> when set
NoCount == <<>>

----------------------------------------------------------------------------
(* Node Flattener *)

RECURSIVE processValue(_, _, _, _, _), processChildren(_, _, _, _, _)
\* processValue with isExpanded: depth < 3
processValueThreeLevels(value, key, path, depth, ns) ==
  LET currentPath == IF path # "" THEN path \o "." \o key ELSE key
      type == getValueType(value)
      node == [key |-> key, value |-> value, type |-> type,
               path |-> currentPath, depth |-> depth,
               isExpanded |-> depth < 3, childCount |-> NoCount]
  IN IF IsContainerType(type)
     THEN LET n == Len(ValueAt(value).kids)
              pushed == Append(ns, [node EXCEPT !.childCount = <<n>>])
          IN IF node.isExpanded
             THEN processChildren(value, 1, currentPath, depth + 1, pushed)
             ELSE pushed
     ELSE Append(ns, node)

processValue(value, key, path, depth, ns) ==
  LET currentPath == IF path # "" THEN path \o "." \o key ELSE key
      type == getValueType(value)
      node == [key |-> key, value |-> value, type |-> type,
               path |-> currentPath, depth |-> depth,
               isExpanded |-> depth < 2, childCount |-> NoCount]
  IN IF IsContainerType(type)
     THEN LET n == Len(ValueAt(value).kids)
              pushed == Append(ns, [node EXCEPT !.childCount = <<n>>])
          IN IF node.isExpanded
             THEN processChildren(value, 1, currentPath, depth + 1, pushed)
             ELSE pushed
     ELSE Append(ns, node)
\* value.forEach / keys.forEach of processValue, from child i on
processChildren(value, i, currentPath, depth, ns) ==
  IF i > Len(ValueAt(value).kids) THEN ns
  ELSE processChildren(value, i + 1, currentPath, depth,
         processValue(Append(value, i), ChildKey(value, i), currentPath, depth, ns))

convertToNodes(rootKey) == processValue(<<>>, rootKey, "", 0, <<>>)

\* countNodes(value): 1 plus the counts of the items or property values
RECURSIVE countNodes(_), countItems(_, _)
countNodes(v) == 1 + countItems(v, 1)
countItems(v, i) ==
  IF i > Len(v.kids) THEN 0
  ELSE countNodes(v.kids[i].val) + countItems(v, i + 1)

----------------------------------------------------------------------------
(* Incremental Tree Editor.  Each operation is given as the array it       *)
(* returns and, separately, as the events it hands to trackEvent.          *)

Event(name, props) == [event |-> name, props |-> props]

\* trackEvent(name, ...) throws
SinkThrows(name) == throwsOn = name

\* the calls of trackEvent made, of those a handler would make one after the
\* other: all of them, or those up to the first that throws
RECURSIVE Delivered(_)
Delivered(tracked) ==
  IF tracked = <<>> THEN <<>>
  ELSE IF SinkThrows(Head(tracked).event) THEN <<Head(tracked)>>
  ELSE <<Head(tracked)>> \o Delivered(Tail(tracked))

SinkThrew(tracked) == \E i \in 1..Len(tracked) : SinkThrows(tracked[i].event)

\* nodes.findIndex(node => node.path === targetPath) from index i on,
\* 1-based; 0 for -1
RECURSIVE findIndexFrom(_, _, _)
findIndexFrom(ns, targetPath, i) ==
  IF i > Len(ns) THEN 0
  ELSE IF ns[i].path = targetPath THEN i
  ELSE findIndexFrom(ns, targetPath, i + 1)

findIndex(ns, targetPath) == findIndexFrom(ns, targetPath, 1)

\* the node expandNode / collapseNode acts on, or none
Acts(ns, targetPath, wantExpanded) ==
  /\ findIndex(ns, targetPath) # 0
  /\ ns[findIndex(ns, targetPath)].isExpanded = wantExpanded

NodeProps(node) ==
  [nodeType |-> node.type, nodeDepth |-> node.depth, childCount |-> node.childCount]

\* the childNodes of expandNode: one processValue call per item or property
childNodesOf(node) ==
  IF IsContainerType(node.type)
  THEN processChildren(node.value, 1, node.path, node.depth + 1, <<>>)
  ELSE <<>>

\* expandNode putting the childNodes at the end of the array
expandNodeAppendsChildren(ns, targetPath) ==
  LET nodeIndex == findIndex(ns, targetPath) IN
  IF nodeIndex = 0 THEN ns
  ELSE IF ns[nodeIndex].isExpanded THEN ns
  ELSE LET node == [ns[nodeIndex] EXCEPT !.isExpanded = TRUE]
       IN SubSeq(ns, 1, nodeIndex - 1) \o <<node>>
            \o SubSeq(ns, nodeIndex + 1, Len(ns)) \o childNodesOf(node)

\* expandNode without the return for a node that is already expanded
expandNodeAgain(ns, targetPath) ==
  LET nodeIndex == findIndex(ns, targetPath) IN
  IF nodeIndex = 0 THEN ns
  ELSE LET node == [ns[nodeIndex] EXCEPT !.isExpanded = TRUE]
       IN SubSeq(ns, 1, nodeIndex - 1) \o <<node>> \o childNodesOf(node)
            \o SubSeq(ns, nodeIndex + 1, Len(ns))

expandNode(ns, targetPath) ==
  LET nodeIndex == findIndex(ns, targetPath) IN
  IF nodeIndex = 0 THEN ns
  ELSE IF ns[nodeIndex].isExpanded THEN ns
  ELSE LET node == [ns[nodeIndex] EXCEPT !.isExpanded = TRUE]
       IN SubSeq(ns, 1, nodeIndex - 1) \o <<node>> \o childNodesOf(node)
            \o SubSeq(ns, nodeIndex + 1, Len(ns))

expandNodeTracked(ns, targetPath) ==
  IF Acts(ns, targetPath, FALSE)
  THEN <<Event("node_expanded", NodeProps(ns[findIndex(ns, targetPath)]))>>
  ELSE <<>>

\* the removeCount loop of collapseNode, from index i on
RECURSIVE removeCount(_, _, _)
removeCount(ns, i, targetPath) ==
  IF i > Len(ns) THEN 0
  ELSE IF \/ startsWith(ns[i].path, targetPath \o ".")
          \/ startsWith(ns[i].path, targetPath \o "[")
       THEN 1 + removeCount(ns, i + 1, targetPath)
       ELSE 0

\* collapseNode leaving the node marked expanded
collapseNodeStillExpanded(ns, targetPath) ==
  LET nodeIndex == findIndex(ns, targetPath) IN
  IF nodeIndex = 0 THEN ns
  ELSE IF ~ns[nodeIndex].isExpanded THEN ns
  ELSE LET count == removeCount(ns, nodeIndex + 1, targetPath)
       IN SubSeq(ns, 1, nodeIndex) \o SubSeq(ns, nodeIndex + 1 + count, Len(ns))

collapseNode(ns, targetPath) ==
  LET nodeIndex == findIndex(ns, targetPath) IN
  IF nodeIndex = 0 THEN ns
  ELSE IF ~ns[nodeIndex].isExpanded THEN ns
  ELSE LET node == [ns[nodeIndex] EXCEPT !.isExpanded = FALSE]
           count == removeCount(ns, nodeIndex + 1, targetPath)
       IN SubSeq(ns, 1, nodeIndex - 1) \o <<node>>
            \o SubSeq(ns, nodeIndex + 1 + count, Len(ns))

collapseNodeTracked(ns, targetPath) ==
  IF Acts(ns, targetPath, TRUE)
  THEN <<Event("node_collapsed", NodeProps(ns[findIndex(ns, targetPath)]))>>
  ELSE <<>>

\* nodes.find(node => node.key === "root") from index i on: the index of
\* the node found, 0 when there is none
RECURSIVE findRootFrom(_, _)
findRootFrom(ns, i) ==
  IF i > Len(ns) THEN 0
  ELSE IF ns[i].key = RootKey THEN i
  ELSE findRootFrom(ns, i + 1)

findRoot(ns) == findRootFrom(ns, 1)

\* processValueWithExpandAll expanding as processValue does, by depth
processValueByDepth(value, key, path, depth, ns) ==
  processValue(value, key, path, depth, ns)

RECURSIVE processValueWithExpandAll(_, _, _, _, _), expandAllChildren(_, _, _, _, _)
processValueWithExpandAll(value, key, path, depth, ns) ==
  LET currentPath == IF path # "" THEN path \o "." \o key ELSE key
      type == getValueType(value)
      node == [key |-> key, value |-> value, type |-> type,
               path |-> currentPath, depth |-> depth,
               isExpanded |-> IsContainerType(type), childCount |-> NoCount]
  IN IF IsContainerType(type)
     THEN expandAllChildren(value, 1, currentPath, depth + 1,
            Append(ns, [node EXCEPT !.childCount = <<Len(ValueAt(value).kids)>>]))
     ELSE Append(ns, node)
expandAllChildren(value, i, currentPath, depth, ns) ==
  IF i > Len(ValueAt(value).kids) THEN ns
  ELSE expandAllChildren(value, i + 1, currentPath, depth,
         processValueWithExpandAll(Append(value, i), ChildKey(value, i),
                                   currentPath, depth, ns))

expandAllNodes(ns) ==
  IF findRoot(ns) = 0 THEN ns
  ELSE processValueWithExpandAll(ns[findRoot(ns)].value, RootKey, "", 0, <<>>)

\* what expandAllNodes tracks when it returns expandedNodes
expandAllEvent(expandedNodes) ==
  Event("expand_all_nodes",
    [totalNodes |-> Len(expandedNodes),
     expandedCount |-> Cardinality({ i \in 1..Len(expandedNodes) :
                          IsContainerType(expandedNodes[i].type) })])

expandAllNodesTracked(ns) ==
  IF findRoot(ns) = 0 THEN <<>> ELSE <<expandAllEvent(expandAllNodes(ns))>>

\* nodes.filter(pred), as the sequence of the kept elements
RECURSIVE filterExpanded(_, _)
filterExpanded(ns, i) ==
  IF i > Len(ns) THEN <<>>
  ELSE IF IsContainerType(ns[i].type) /\ ns[i].isExpanded
       THEN <<ns[i]>> \o filterExpanded(ns, i + 1)
       ELSE filterExpanded(ns, i + 1)

\* the for loop of collapseAllNodes with every collapseNode given the array
\* as it was before the loop: the last one decides the result
collapseLoopOnSnapshot(collapsibleNodes, i, st) ==
  LET n == Len(collapsibleNodes)
      RECURSIVE trackedFrom(_)
      trackedFrom(k) ==
        IF k > n THEN <<>>
        ELSE collapseNodeTracked(st.result, collapsibleNodes[k].path)
               \o trackedFrom(k + 1)
  IN IF n = 0 THEN st
     ELSE [result |-> collapseNode(st.result, collapsibleNodes[n].path),
           tracked |-> trackedFrom(1)]

\* the for loop of collapseAllNodes from collapsibleNodes[i] on: every
\* collapseNode is given the result of the one before
RECURSIVE collapseLoop(_, _, _)
collapseLoop(collapsibleNodes, i, st) ==
  IF i > Len(collapsibleNodes) THEN st
  ELSE collapseLoop(collapsibleNodes, i + 1,
         [result |-> collapseNode(st.result, collapsibleNodes[i].path),
          tracked |-> st.tracked \o
                      collapseNodeTracked(st.result, collapsibleNodes[i].path)])

collapseAllRun(ns) ==
  collapseLoop(filterExpanded(ns, 1), 1, [result |-> ns, tracked |-> <<>>])

collapseAllNodes(ns) == collapseAllRun(ns).result

\* what collapseAllNodes tracks last, when the loop ends in state st
collapseAllEvent(ns, st) ==
  Event("collapse_all_nodes",
    [totalNodes |-> Len(st.result),
     collapsedCount |-> Len(filterExpanded(ns, 1))])

collapseAllNodesTracked(ns) ==
  LET st == collapseAllRun(ns) IN Append(st.tracked, collapseAllEvent(ns, st))

----------------------------------------------------------------------------
(* Search Engine *)

getSearchableValue(value) ==
  LET v == ValueAt(value) IN
  IF v.type = "null" THEN "null"
  ELSE IF IsContainerType(v.type) THEN ""
  ELSE v.text

RECURSIVE findMatchingPaths(_, _, _, _, _, _), findInChildren(_, _, _, _, _, _)
\* the Set matchingPaths after the call
findMatchingPaths(value, key, path, searchQuery, caseSensitive, matchingPaths) ==
  LET currentPath == IF path # "" THEN path \o "." \o key ELSE key
      keyMatch == IF caseSensitive THEN includes(key, searchQuery)
                  ELSE includes(toLowerCase(key), searchQuery)
      searchableValue == getSearchableValue(value)
      valueMatch == IF caseSensitive THEN includes(searchableValue, searchQuery)
                    ELSE includes(toLowerCase(searchableValue), searchQuery)
      added == IF keyMatch \/ valueMatch
               THEN matchingPaths \cup {currentPath} ELSE matchingPaths
  IN findInChildren(value, 1, currentPath, searchQuery, caseSensitive, added)
findInChildren(value, i, currentPath, searchQuery, caseSensitive, matchingPaths) ==
  IF i > Len(ValueAt(value).kids) THEN matchingPaths
  ELSE findInChildren(value, i + 1, currentPath, searchQuery, caseSensitive,
         findMatchingPaths(Append(value, i), ChildKey(value, i), currentPath,
                           searchQuery, caseSensitive, matchingPaths))

\* parts.slice(0, n).join(".")
RECURSIVE joinParts(_, _)
joinParts(parts, n) ==
  IF n = 1 THEN parts[1] ELSE joinParts(parts, n - 1) \o "." \o parts[n]

\* searchNodes adding no parent path to pathsToExpand
noParentPaths(matchPath) == {}

\* what the pathParts.forEach of searchNodes adds to pathsToExpand for one
\* matchPath: every dot-joined prefix of its parts other than matchPath
parentPaths(matchPath) ==
  LET pathParts == split(matchPath, ".") IN
  { joinParts(pathParts, n) : n \in 1..Len(pathParts) } \ {matchPath}

RECURSIVE processValueWithSearch(_, _, _, _, _, _, _), searchChildren(_, _, _, _, _, _, _)
processValueWithSearch(value, key, path, depth, ns, pathsToExpand, matchingPaths) ==
  LET currentPath == IF path # "" THEN path \o "." \o key ELSE key
      type == getValueType(value)
      shouldExpand == currentPath \in pathsToExpand \/ currentPath \in matchingPaths
      node == [key |-> key, value |-> value, type |-> type,
               path |-> currentPath, depth |-> depth,
               isExpanded |-> shouldExpand /\ IsContainerType(type),
               childCount |-> NoCount]
  IN IF IsContainerType(type)
     THEN LET pushed == Append(ns, [node EXCEPT
                           !.childCount = <<Len(ValueAt(value).kids)>>])
          IN IF node.isExpanded
             THEN searchChildren(value, 1, currentPath, depth + 1, pushed,
                                 pathsToExpand, matchingPaths)
             ELSE pushed
     ELSE Append(ns, node)
searchChildren(value, i, currentPath, depth, ns, pathsToExpand, matchingPaths) ==
  IF i > Len(ValueAt(value).kids) THEN ns
  ELSE searchChildren(value, i + 1, currentPath, depth,
         processValueWithSearch(Append(value, i), ChildKey(value, i), currentPath,
                                depth, ns, pathsToExpand, matchingPaths),
         pathsToExpand, matchingPaths)

\* expandedNodes.forEach((node, index) => ...): the 0-based indices, in order,
\* of the nodes from index i on whose path is in matchingPaths
RECURSIVE matchIndicesOf(_, _, _)
matchIndicesOf(expandedNodes, i, matchingPaths) ==
  IF i > Len(expandedNodes) THEN <<>>
  ELSE IF expandedNodes[i].path \in matchingPaths
       THEN <<i - 1>> \o matchIndicesOf(expandedNodes, i + 1, matchingPaths)
       ELSE matchIndicesOf(expandedNodes, i + 1, matchingPaths)

\* matchingPaths of searchNodes, for a sequence with a root node
matchingPathsOf(ns, query, caseSensitive) ==
  findMatchingPaths(ns[findRoot(ns)].value, RootKey, "",
                    IF caseSensitive THEN query ELSE toLowerCase(query),
                    caseSensitive, {})

\* searchNodes rebuilding the tree even when nothing matches
searchNodesRebuilds(ns, query, caseSensitive) ==
  LET rootIndex == findRoot(ns) IN
  IF IsBlank(query) THEN [nodes |-> ns, matchIndices |-> <<>>]
  ELSE IF rootIndex = 0 THEN [nodes |-> ns, matchIndices |-> <<>>]
  ELSE LET matchingPaths == matchingPathsOf(ns, query, caseSensitive)
           pathsToExpand == UNION { parentPaths(m) : m \in matchingPaths }
           expandedNodes ==
             processValueWithSearch(ns[rootIndex].value, RootKey, "", 0,
                                    <<>>, pathsToExpand, matchingPaths)
       IN [nodes |-> expandedNodes,
           matchIndices |-> matchIndicesOf(expandedNodes, 1, matchingPaths)]

\* searchNodes(nodes, query, caseSensitive): {nodes, matchIndices}
searchNodes(ns, query, caseSensitive) ==
  LET rootIndex == findRoot(ns) IN
  IF IsBlank(query) THEN [nodes |-> ns, matchIndices |-> <<>>]
  ELSE IF rootIndex = 0 THEN [nodes |-> ns, matchIndices |-> <<>>]
  ELSE LET matchingPaths == matchingPathsOf(ns, query, caseSensitive) IN
       IF matchingPaths = {} THEN [nodes |-> ns, matchIndices |-> <<>>]
       ELSE LET pathsToExpand == UNION { parentPaths(m) : m \in matchingPaths }
                expandedNodes ==
                  processValueWithSearch(ns[rootIndex].value, RootKey, "", 0,
                                         <<>>, pathsToExpand, matchingPaths)
            IN [nodes |-> expandedNodes,
                matchIndices |-> matchIndicesOf(expandedNodes, 1, matchingPaths)]

\* what searchNodes tracks when it returns r
searchEvents(ns, query, r) ==
  IF IsBlank(query) \/ findRoot(ns) = 0 THEN <<>>
  ELSE <<Event("search_performed",
           [searchResultCount |-> Len(r.matchIndices)])>>

searchNodesTracked(ns, query, caseSensitive) ==
  searchEvents(ns, query, searchNodes(ns, query, caseSensitive))

----------------------------------------------------------------------------
(* Table view (components/JsonTableView.tsx): the lookup of the selected   *)
(* path in data.  What a lookup yields is a part of data, given by its     *)
(* position, or undefined, or null.                                        *)

Found(ref) == [kind |-> "value", ref |-> ref]
Undefined == [kind |-> "undefined", ref |-> <<>>]
Null == [kind |-> "null", ref |-> <<>>]

IsDigit(c) == \E d \in 1..10 : Digit[d] = c
DigitValue(c) == (CHOOSE d \in 1..10 : Digit[d] = c) - 1

\* what parseInt gives when there is no number: no index equals it
NaN == 0 - 1

\* parseInt(part, 10) of a string without sign or leading white space: the
\* number its leading digits spell, read from character i on with acc so
\* far; NaN when it begins with no digit
RECURSIVE parseDigits(_, _, _)
parseDigits(part, i, acc) ==
  IF i > Len(part) \/ ~IsDigit(CharAt(part, i)) THEN acc
  ELSE parseDigits(part, i + 1, 10 * acc + DigitValue(CharAt(part, i)))

parseInt(part) ==
  IF part = "" \/ ~IsDigit(CharAt(part, 1)) THEN NaN ELSE parseDigits(part, 1, 0)

\* the for loop over the characters of cleanPath, from character i on
RECURSIVE pathParts(_, _, _, _, _)
pathParts(cleanPath, i, currentPart, inBrackets, parts) ==
  LET char == CharAt(cleanPath, i)
      pushed == IF currentPart # "" THEN Append(parts, currentPart) ELSE parts
  IN IF i > Len(cleanPath) THEN pushed
     ELSE IF char = "[" THEN pathParts(cleanPath, i + 1, "", TRUE, pushed)
     ELSE IF char = "]"
          THEN IF inBrackets /\ currentPart # ""
               THEN pathParts(cleanPath, i + 1, "", FALSE, pushed)
               ELSE pathParts(cleanPath, i + 1, currentPart, FALSE, parts)
     ELSE IF char = "." /\ ~inBrackets
          THEN pathParts(cleanPath, i + 1, "", inBrackets, pushed)
     ELSE pathParts(cleanPath, i + 1, currentPart \o char, inBrackets, parts)

\* current[index] of an array
itemAt(ref, index) ==
  IF index < Len(ValueAt(ref).kids) THEN Found(Append(ref, index + 1)) ELSE Undefined

\* current[part] of an object or array: the own property named part (an
\* array has none among the parts that are not numbers)
propertyAt(ref, part) ==
  LET v == ValueAt(ref)
      named == { i \in 1..Len(v.kids) : v.type = "object" /\ v.kids[i].key = part }
  IN IF named = {} THEN Undefined ELSE Found(Append(ref, CHOOSE i \in named : TRUE))

\* the for loop over parts, from parts[i] on
RECURSIVE lookupParts(_, _, _)
lookupParts(parts, i, current) ==
  IF i > Len(parts) THEN current
  ELSE IF current.kind # "value" \/ ValueAt(current.ref).type = "null" THEN Null
  ELSE LET index == parseInt(parts[i])
           type == ValueAt(current.ref).type
       IN IF index # NaN /\ type = "array"
          THEN lookupParts(parts, i + 1, itemAt(current.ref, index))
          ELSE IF IsContainerType(type)
          THEN lookupParts(parts, i + 1, propertyAt(current.ref, parts[i]))
          ELSE Null

getValueFromPath(path) ==
  IF path = "" \/ path = "root" THEN Found(<<>>)
  ELSE LET cleanPath == IF startsWith(path, "root.")
                        THEN SubSeq(path, 6, Len(path)) ELSE path
       IN IF cleanPath = "" THEN Found(<<>>)
          ELSE lookupParts(pathParts(cleanPath, 1, "", FALSE, <<>>), 1, Found(<<>>))

\* the memo selectedNodeData
selectedNodeData ==
  IF selectedNodePath = "" \/ nodes = <<>> THEN Null
  ELSE IF findIndex(nodes, selectedNodePath) = 0 THEN Null
  ELSE getValueFromPath(selectedNodePath)

----------------------------------------------------------------------------
(* The text of an input.  Texts are the strings over Chars: the two        *)
(* brackets of an array, the quote, the comma, the newline (the white      *)
(* space) and a letter.  The code treats ':', '{', '}', '\', '/', '@',     *)
(* '=', '(' and the control characters other than newline apart; these do  *)
(* not occur in Chars, and the branches they drive are written down below  *)
(* where a character of Chars can reach them.                              *)

\* the longest text of an input
MaxText == 3

Chars == {"[", "]", "\"", ",", "\n", "a"}

RECURSIVE TextsOfLen(_)
TextsOfLen(n) ==
  IF n = 0 THEN {""}
  ELSE { t \o c : t \in TextsOfLen(n - 1), c \in Chars }

ShortTexts == UNION { TextsOfLen(n) : n \in 0..MaxText }

\* the texts of an input: the short texts, and each of them as the content
\* of an array
Texts == ShortTexts \cup { "[" \o t \o "]" : t \in ShortTexts }

\* String.prototype.trim
RECURSIVE trimStart(_)
trimStart(s) ==
  IF Len(s) > 0 /\ IsSpace(CharAt(s, 1)) THEN trimStart(SubSeq(s, 2, Len(s)))
  ELSE s

RECURSIVE trimEnd(_)
trimEnd(s) ==
  IF Len(s) > 0 /\ IsSpace(CharAt(s, Len(s))) THEN trimEnd(SubSeq(s, 1, Len(s) - 1))
  ELSE s

trim(s) == trimEnd(trimStart(s))

\* String.prototype.endsWith
endsWith(s, suffix) ==
  /\ Len(suffix) <= Len(s)
  /\ SubSeq(s, Len(s) - Len(suffix) + 1, Len(s)) = suffix

\* s.substring(0, n)
substringTo(s, n) ==
  IF n <= 0 THEN "" ELSE IF n >= Len(s) THEN s ELSE SubSeq(s, 1, n)

\* the index (1-based) of the first character from i on that is not white
\* space; Len(s) + 1 when there is none
RECURSIVE skipSpace(_, _)
skipSpace(s, i) ==
  IF i <= Len(s) /\ IsSpace(CharAt(s, i)) THEN skipSpace(s, i + 1) ELSE i

\* the number of quotes in s
RECURSIVE countQuotes(_)
countQuotes(s) ==
  IF Len(s) = 0 THEN 0
  ELSE (IF CharAt(s, 1) = "\"" THEN 1 ELSE 0) + countQuotes(SubSeq(s, 2, Len(s)))

----------------------------------------------------------------------------
(* The strict parser, json-parse-even-better-errors (JSON.parse with a     *)
(* richer error): the JSON grammar over Chars.  A value is a string        *)
(* literal, which holds no quote and no newline, or an array.              *)

Throws == [type |-> "throws", text |-> "", kids |-> <<>>]

Unparsed == [ok |-> FALSE, value |-> NoData, next |-> 0]

\* the index of the quote closing the string literal whose content begins
\* at i; 0 when a newline or the end of the text comes first
RECURSIVE closingQuote(_, _)
closingQuote(s, i) ==
  IF i > Len(s) THEN 0
  ELSE IF CharAt(s, i) = "\"" THEN i
  ELSE IF CharAt(s, i) = "\n" THEN 0
  ELSE closingQuote(s, i + 1)

RECURSIVE parseValueAt(_, _), parseItems(_, _, _)
\* the value that begins at or after i, and the index after it
parseValueAt(s, i) ==
  LET j == skipSpace(s, i) IN
  IF j > Len(s) THEN Unparsed
  ELSE IF CharAt(s, j) = "\""
  THEN LET k == closingQuote(s, j + 1) IN
       IF k = 0 THEN Unparsed
       ELSE [ok |-> TRUE, value |-> Scalar("string", SubSeq(s, j + 1, k - 1)),
             next |-> k + 1]
  ELSE IF CharAt(s, j) = "["
  THEN LET k == skipSpace(s, j + 1) IN
       IF k <= Len(s) /\ CharAt(s, k) = "]"
       THEN [ok |-> TRUE, value |-> Arr(<<>>), next |-> k + 1]
       ELSE parseItems(s, j + 1, <<>>)
  ELSE Unparsed
\* the rest of an array of which items are read and an item is due at i
parseItems(s, i, items) ==
  LET r == parseValueAt(s, i) IN
  IF ~r.ok THEN Unparsed
  ELSE LET k == skipSpace(s, r.next) IN
       IF k > Len(s) THEN Unparsed
       ELSE IF CharAt(s, k) = ","
       THEN parseItems(s, k + 1, Append(items, r.value))
       ELSE IF CharAt(s, k) = "]"
       THEN [ok |-> TRUE, value |-> Arr(Append(items, r.value)), next |-> k + 1]
       ELSE Unparsed

\* parseJson(text) of the library: the value, or Throws
strictParse(s) ==
  LET r == parseValueAt(s, 1) IN
  IF r.ok /\ skipSpace(s, r.next) > Len(s) THEN r.value ELSE Throws

----------------------------------------------------------------------------
(* The repairs of the Tolerant Parser, on texts over Chars *)

\* cleaned.replace(/"{2,}/g, '"'): a run of quotes becomes one quote
RECURSIVE collapseQuotes(_)
collapseQuotes(s) ==
  IF Len(s) = 0 THEN ""
  ELSE IF Len(s) >= 2 /\ CharAt(s, 1) = "\"" /\ CharAt(s, 2) = "\""
  THEN collapseQuotes(SubSeq(s, 2, Len(s)))
  ELSE CharAt(s, 1) \o collapseQuotes(SubSeq(s, 2, Len(s)))

\* cleaned.replace(/,(\s*[}\]])/g, "$1"): a comma that only white space
\* separates from a closing bracket is removed
RECURSIVE dropTrailingCommas(_)
dropTrailingCommas(s) ==
  IF Len(s) = 0 THEN ""
  ELSE LET k == skipSpace(s, 2) IN
       IF CharAt(s, 1) = "," /\ k <= Len(s) /\ CharAt(s, k) = "]"
       THEN dropTrailingCommas(SubSeq(s, 2, Len(s)))
       ELSE CharAt(s, 1) \o dropTrailingCommas(SubSeq(s, 2, Len(s)))

\* cleaned.replace(/\n\s*\n/g, "\n"): white space from a newline to the last
\* newline of the run becomes one newline
RECURSIVE collapseBlankLines(_)
collapseBlankLines(s) ==
  IF Len(s) = 0 THEN ""
  ELSE LET k == skipSpace(s, 1) IN
       IF CharAt(s, 1) = "\n" /\ k > 2
       THEN "\n" \o collapseBlankLines(SubSeq(s, k, Len(s)))
       ELSE CharAt(s, 1) \o collapseBlankLines(SubSeq(s, 2, Len(s)))

\* the text between the outer quotes of a serialized JSON string: what
\* JSON.parse returns for a string literal, and cleaned.slice(1, -1) when
\* JSON.parse throws (there is no backslash to unescape)
unquote(cleaned) ==
  IF strictParse(cleaned).type = "string" THEN strictParse(cleaned).text
  ELSE IF Len(cleaned) < 2 THEN ""
  ELSE SubSeq(cleaned, 2, Len(cleaned) - 1)

\* cleanJsonString(input).  The comment, control-character, URL, e-mail,
\* CSS and identifier rules need '/', a control character other than
\* newline, or ':', '@', '=' and '(': they change no text over Chars.
cleanJsonString(input) ==
  LET trimmed == trim(input)
      unquoted == IF startsWith(trimmed, "\"") /\ endsWith(trimmed, "\"")
                  THEN unquote(trimmed) ELSE trimmed
  IN collapseBlankLines(dropTrailingCommas(collapseQuotes(unquoted)))

\* cleaned.replace(/[\u0000-\u001F\u007F-\u009F]/g, ""): the newline is the
\* control character of Chars
RECURSIVE removeControlChars(_)
removeControlChars(s) ==
  IF Len(s) = 0 THEN ""
  ELSE (IF CharAt(s, 1) = "\n" THEN "" ELSE CharAt(s, 1))
         \o removeControlChars(SubSeq(s, 2, Len(s)))

\* aggressiveCleanup(input).  With the newlines gone the two comma rules
\* find nothing; the rule for nested quotes rewrites a quoted span to itself
\* because a span between a quote and the next quote holds no quote.
aggressiveCleanup(input) == removeControlChars(input)

\* the indices of the first "[" and the last "]" of s; 0 when there is none
RECURSIVE firstOpen(_, _)
firstOpen(s, i) ==
  IF i > Len(s) THEN 0 ELSE IF CharAt(s, i) = "[" THEN i ELSE firstOpen(s, i + 1)

RECURSIVE lastClose(_, _)
lastClose(s, i) ==
  IF i < 1 THEN 0 ELSE IF CharAt(s, i) = "]" THEN i ELSE lastClose(s, i - 1)

NoText == <<>>

\* input.match(/\[[\s\S]*\]/): <<the text matched>>, or NoText for null
arrayMatch(input) ==
  LET open == firstOpen(input, 1)
      close == lastClose(input, Len(input))
  IN IF open > 0 /\ close > open THEN <<SubSeq(input, open, close)>>
     ELSE NoText

\* extractJsonFromString(input): <<text>>, or NoText for null.  There is no
\* brace in Chars, so input.match(/\{[\s\S]*\}/) is null.
extractJsonFromString(input) ==
  IF arrayMatch(input) # NoText
  THEN <<cleanJsonString(arrayMatch(input)[1])>>
  ELSE NoText

\* if (extracted): neither null nor the empty string
IsTruthyText(extracted) == extracted # NoText /\ Len(extracted[1]) > 0

\* the text the strict parser is given at each stage of parseJson(input)
StageText(input, stage) ==
  CASE stage = 0 -> input
    [] stage = 1 -> cleanJsonString(input)
    [] stage = 2 -> aggressiveCleanup(cleanJsonString(input))
    [] stage = 3 -> extractJsonFromString(input)[1]

----------------------------------------------------------------------------
(* Error Locator.  An optional number (line?, column?, position?) is <<>>  *)
(* when absent and <<n>> when present.                                     *)

NoNumber == <<>>

\* !n of an optional number: undefined or 0
IsFalsy(n) == n = NoNumber \/ n[1] = 0

\* {line, column, position} as the manual scans return it
Location(line, column, position) ==
  [line |-> <<line>>, column |-> <<column>>, position |-> <<position>>]

\* errorDetails = {}
NoLocation == [line |-> NoNumber, column |-> NoNumber, position |-> NoNumber]

\* a scan that returns null
NotFound == [found |-> FALSE]

\* line and column of the end of the text before: before.split("\n") gives
\* lines, line = lines.length, column = lines[lines.length - 1].length + 1
lineOfEnd(before) == Len(split(before, "\n"))
columnOfEnd(before) ==
  LET lines == split(before, "\n") IN Len(lines[Len(lines)]) + 1

\* the sum of lines[i].length + 1 over the first n lines
RECURSIVE lengthOfLines(_, _)
lengthOfLines(lines, n) ==
  IF n = 0 THEN 0 ELSE lengthOfLines(lines, n - 1) + Len(lines[n]) + 1

Max(a, b) == IF a >= b THEN a ELSE b
Min(a, b) == IF a <= b THEN a ELSE b

getPositionFromLineColumn(input, line, column) ==
  LET lines == split(input, "\n")
      position == lengthOfLines(lines, Min(line - 1, Len(lines)))
                    + Max(0, column - 1)
  IN Min(position, Len(input))

\* validateJsonAndFindError: whether a quote closes the string opened at
\* index i (0-based) before a newline or the end of the input
foundClosingQuote(input, i) == closingQuote(input, i + 2) # 0

\* the index (0-based) of the first character after index i that is not
\* white space; -1 when there is none
firstAfter(input, i) ==
  LET k == skipSpace(input, i + 2) IN IF k > Len(input) THEN 0 - 1 ELSE k - 1

\* the loop of validateJsonAndFindError from index i (0-based) on, and the
\* checks after it; stack holds {char, line, column} of the open brackets.
\* There is no backslash in Chars, so escapeNext stays false.
RECURSIVE validateFrom(_, _, _, _, _, _)
validateFrom(input, i, line, column, inString, stack) ==
  IF i >= Len(input)
  THEN IF Len(stack) > 0
       THEN Location(stack[Len(stack)].line, stack[Len(stack)].column, 0 - 1)
       ELSE IF inString THEN Location(line, column, Len(input) - 1)
       ELSE NotFound
  ELSE LET char == CharAt(input, i + 1)
           l == IF char = "\n" THEN line + 1 ELSE line
           c == IF char = "\n" THEN 1 ELSE column + 1
       IN IF char = "\""
          THEN IF ~inString
               THEN IF ~foundClosingQuote(input, i) THEN Location(l, c, i)
                    ELSE validateFrom(input, i + 1, l, c, TRUE, stack)
               ELSE validateFrom(input, i + 1, l, c, FALSE, stack)
          ELSE IF inString THEN validateFrom(input, i + 1, l, c, inString, stack)
          ELSE IF char \in {"{", "["}
          THEN validateFrom(input, i + 1, l, c, inString,
                            Append(stack, [char |-> char, line |-> l, column |-> c]))
          ELSE IF char \in {"}", "]"}
          THEN IF Len(stack) = 0 THEN Location(l, c, i)
               ELSE IF stack[Len(stack)].char # (IF char = "}" THEN "{" ELSE "[")
               THEN Location(l, c, i)
               ELSE LET j == firstAfter(input, i) IN
                    IF Len(stack) = 1 /\ j >= 0
                    THEN Location(lineOfEnd(substringTo(input, j)),
                                  columnOfEnd(substringTo(input, j)), j)
                    ELSE validateFrom(input, i + 1, l, c, inString,
                                      SubSeq(stack, 1, Len(stack) - 1))
          ELSE IF char \in {":", ","}
          THEN validateFrom(input, i + 1, l, c, inString, stack)
          ELSE IF ~IsSpace(char) /\ Len(stack) > 0 THEN Location(l, c, i)
          ELSE validateFrom(input, i + 1, l, c, inString, stack)

validateJsonAndFindError(input) == validateFrom(input, 0, 1, 1, FALSE, <<>>)

\* Strategy 0 of findErrorLocationManually from line i (1-based) on: a line
\* that ends inside a string (an odd number of quotes, without backslashes)
\* and is not continued by a line that begins with a quote
RECURSIVE unterminatedString(_, _, _)
unterminatedString(input, lines, i) ==
  IF i > Len(lines) THEN NotFound
  ELSE IF /\ countQuotes(lines[i]) % 2 = 1
          /\ \/ i = Len(lines)
             \/ lines[i + 1] = ""
             \/ ~startsWith(trim(lines[i + 1]), "\"")
  THEN Location(i, Len(lines[i]) + 1,
                getPositionFromLineColumn(input, i, Len(lines[i]) + 1))
  ELSE unterminatedString(input, lines, i + 1)

\* Strategy 1 from line i on: a line that ends without ',', '{' or '[' before
\* a line that begins with a quote and holds a colon
RECURSIVE missingComma(_, _, _)
missingComma(input, lines, i) ==
  IF i >= Len(lines) THEN NotFound
  ELSE LET currentTrimmed == trim(lines[i])
           nextTrimmed == trim(lines[i + 1])
       IN IF /\ currentTrimmed # ""
             /\ startsWith(nextTrimmed, "\"")
             /\ includes(nextTrimmed, ":")
             /\ ~endsWith(currentTrimmed, ",")
             /\ ~endsWith(currentTrimmed, "{")
             /\ ~endsWith(currentTrimmed, "[")
          THEN Location(i, Len(lines[i]) + 1,
                        getPositionFromLineColumn(input, i, Len(lines[i]) + 1))
          ELSE missingComma(input, lines, i + 1)

\* Strategy 3, the bracket scan, from index i (0-based) on
RECURSIVE bracketScan(_, _, _, _)
bracketScan(input, i, inString, stack) ==
  IF i >= Len(input) THEN NotFound
  ELSE LET char == CharAt(input, i + 1) IN
       IF char = "\"" THEN bracketScan(input, i + 1, ~inString, stack)
       ELSE IF inString THEN bracketScan(input, i + 1, inString, stack)
       ELSE IF char \in {"{", "["}
       THEN bracketScan(input, i + 1, inString, Append(stack, char))
       ELSE IF char \in {"}", "]"}
       THEN IF \/ Len(stack) = 0
               \/ stack[Len(stack)] # (IF char = "}" THEN "{" ELSE "[")
            THEN Location(lineOfEnd(substringTo(input, i)),
                          columnOfEnd(substringTo(input, i)), i)
            ELSE bracketScan(input, i + 1, inString, SubSeq(stack, 1, Len(stack) - 1))
       ELSE bracketScan(input, i + 1, inString, stack)

\* the first match of /,\s*([}\]])/g from index i (0-based) on
RECURSIVE trailingComma(_, _)
trailingComma(input, i) ==
  IF i >= Len(input) THEN NotFound
  ELSE LET k == skipSpace(input, i + 2) IN
       IF /\ CharAt(input, i + 1) = ","
          /\ k <= Len(input)
          /\ CharAt(input, k) \in {"}", "]"}
       THEN Location(lineOfEnd(substringTo(input, i)),
                     columnOfEnd(substringTo(input, i)), i)
       ELSE trailingComma(input, i + 1)

\* the first scan that finds something.  Strategy 4 looks for the property
\* "processingTime", which no text over Chars holds.
findErrorLocationManually(input) ==
  LET lines == split(input, "\n")
      s0 == unterminatedString(input, lines, 1)
      s1 == missingComma(input, lines, 1)
      s2 == validateJsonAndFindError(input)
      s3 == bracketScan(input, 0, FALSE, <<>>)
      s4 == trailingComma(input, 0)
  IN IF s0 # NotFound THEN s0
     ELSE IF s1 # NotFound THEN s1
     ELSE IF s2 # NotFound THEN s2
     ELSE IF s3 # NotFound THEN s3
     ELSE s4

\* the lower case of a message
lower(message) == toLowerCase(message)

\* /first.*second/i.test(message)
matchesBoth(message, first, second) ==
  LET m == lower(message) IN
  \E i \in 0..(Len(m) - Len(first)) :
    /\ SubSeq(m, i + 1, i + Len(first)) = first
    /\ includes(SubSeq(m, i + Len(first) + 1, Len(m)), second)

\* getFriendlyErrorMessage: the first pattern of errorMappings that matches.
\* The entries /unexpected token.*position.*,/i and the second
\* /unterminated string/i never come first: an earlier entry matches
\* whatever they match.
getFriendlyErrorMessage(message) ==
  LET m == lower(message) IN
  IF matchesBoth(message, "unexpected token", "in json at position")
  THEN "Invalid character found - possibly escaped JSON string, unquoted URLs, or control characters"
  ELSE IF includes(m, "unexpected end of json input")
  THEN "JSON appears to be incomplete - missing closing brackets or quotes"
  ELSE IF includes(m, "expected property name or '}'")
  THEN "Missing property name or invalid object syntax - property names must be quoted"
  ELSE IF includes(m, "expected ',' or '}'")
  THEN "Missing comma between object properties"
  ELSE IF includes(m, "unterminated string")
  THEN "String is missing closing quote"
  ELSE IF includes(m, "expected ',' or ']'")
  THEN "Missing comma between array elements"
  ELSE IF includes(m, "trailing comma")
  THEN "Remove the trailing comma"
  ELSE IF matchesBoth(message, "unexpected token", ",")
  THEN "Trailing comma is not allowed in JSON"
  ELSE IF matchesBoth(message, "duplicate", "key")
  THEN "Duplicate property names are not allowed"
  ELSE IF includes(m, "control character")
  THEN "Invalid control characters found - these have been automatically removed"
  ELSE IF includes(message, "unexpected token '/'")
  THEN "JSON does not support comments. Please remove // or /* */ comments"
  ELSE IF includes(m, "invalid character")
  THEN "Invalid characters detected - URLs and emails must be quoted"
  ELSE IF includes(m, "unexpected token")
  THEN "Unexpected character found - check for invalid characters or syntax"
  ELSE "Invalid JSON format - this may be an escaped JSON string or API response with formatting issues. Automatic cleanup attempted."

\* the error the strict parser throws (JsonParseError): its message ("" when
\* it has none) and the optional line, column and position
JsonParseError(message, line, column, position) ==
  [message |-> message, line |-> line, column |-> column, position |-> position]

\* an error without message or location; also: no error
NoError == JsonParseError("", NoNumber, NoNumber, NoNumber)

\* the ParseResult of a failure
Failure(error, errorDetails) ==
  [success |-> FALSE, data |-> NoData, error |-> error,
   errorDetails |-> <<errorDetails>>]

\* getDetailedErrorFromBetterParser(error, input)
getDetailedErrorFromBetterParser(error, input) ==
  LET before == substringTo(input, error.position[1])
      calculated ==
        IF error.position # NoNumber /\ (IsFalsy(error.line) \/ IsFalsy(error.column))
        THEN [line |-> <<lineOfEnd(before)>>, column |-> <<columnOfEnd(before)>>,
              position |-> error.position]
        ELSE [line |-> error.line, column |-> error.column,
              position |-> error.position]
      friendlyError ==
        IF error.message # "" THEN getFriendlyErrorMessage(error.message)
        ELSE "Invalid JSON format"
      manualError ==
        IF /\ IsFalsy(calculated.position)
           /\ IsFalsy(calculated.line)
           /\ IsFalsy(calculated.column)
        THEN findErrorLocationManually(input)
        ELSE NotFound
      errorDetails == IF manualError # NotFound THEN manualError ELSE calculated
  IN Failure(
       IF ~IsFalsy(errorDetails.line) /\ ~IsFalsy(errorDetails.column)
       THEN friendlyError \o " (Line " \o NatToString(errorDetails.line[1])
              \o ", Column " \o NatToString(errorDetails.column[1]) \o ")"
       ELSE friendlyError,
       errorDetails)

----------------------------------------------------------------------------
(* Tolerant Parser.  parseJson sees of its input what the strict parser     *)
(* makes of it at each stage, the value it returns or Throws, and what the *)
(* Error Locator makes of the first error.                                 *)

\* an input: blank says !input.trim(); stage0 is parseJson(input); stage1 is
\* parseJson(cleanJsonString(input)); stage2 is parseJson(aggressiveCleanup(..));
\* extracted says extractJsonFromString(input) is truthy; stage3 is
\* parseJson(extracted); text is the input when it is given as a text;
\* firstError is what parseJson(input) throws
Input(blank, s0, s1, s2, ex, s3) ==
  [blank |-> blank, stage0 |-> s0, stage1 |-> s1, stage2 |-> s2,
   extracted |-> ex, stage3 |-> s3, text |-> NoText, firstError |-> NoError]

Inputs ==
  { Input(TRUE, Throws, Throws, Throws, FALSE, Throws) } \cup
  { Input(FALSE, d, Throws, Throws, FALSE, Throws) : d \in Docs } \cup
  { Input(FALSE, Throws, d, Throws, FALSE, Throws) : d \in Docs } \cup
  { Input(FALSE, Throws, Throws, d, FALSE, Throws) : d \in Docs } \cup
  { Input(FALSE, Throws, Throws, Throws, TRUE, d) : d \in Docs } \cup
  { Input(FALSE, Throws, Throws, Throws, ex, Throws) : ex \in BOOLEAN }

\* the messages of the errors the strict parser throws; "" for none
Messages ==
  { "",
    "Unexpected end of JSON input",
    "Unexpected token ] in JSON at position 0",
    "Bad control character in string literal" }

\* the errors the strict parser may throw for a text it does not parse:
\* without a location, with any of the messages; or with a position in the
\* text, and with or without the line and column of that position
ParserErrors(text) ==
  { JsonParseError(m, NoNumber, NoNumber, NoNumber) : m \in Messages } \cup
  UNION { { JsonParseError("Unexpected end of JSON input",
                           NoNumber, NoNumber, <<p>>),
            JsonParseError("Unexpected end of JSON input",
                           <<lineOfEnd(substringTo(text, p))>>,
                           <<columnOfEnd(substringTo(text, p))>>, <<p>>) }
          : p \in 0..Len(text) }

\* what the strict parser throws at Stage 0 for a text
FirstErrors(text) ==
  IF strictParse(text) = Throws THEN ParserErrors(text) ELSE {NoError}

\* the input that a text is, error being thrown at Stage 0
InputOf(text, error) ==
  LET extracted == extractJsonFromString(text) IN
  [blank |-> IsBlank(text),
   stage0 |-> strictParse(StageText(text, 0)),
   stage1 |-> strictParse(StageText(text, 1)),
   stage2 |-> strictParse(StageText(text, 2)),
   extracted |-> IsTruthyText(extracted),
   stage3 |-> IF IsTruthyText(extracted) THEN strictParse(StageText(text, 3))
              ELSE Throws,
   text |-> <<text>>, firstError |-> error]

\* getDetailedErrorFromBetterParser(error, input) in the catch of parseJson.
\* An input that is not given as a text is one in which no scan finds an
\* error; its first error has no message and no location.
detailedError(error, input) ==
  IF input.text = NoText THEN Failure("Invalid JSON format", NoLocation)
  ELSE getDetailedErrorFromBetterParser(error, input.text[1])

ParseError(errorType) == Event("json_parse_error", [errorType |-> errorType])

\* the try block of parseJson tracking nothing when a repair succeeds
parseStagesUntracked(input) ==
  IF input.stage0 # Throws
  THEN [thrown |-> FALSE, attempted |-> <<0>>, value |-> input.stage0,
        needsCleanup |-> FALSE, tracked |-> <<>>]
  ELSE IF input.stage1 # Throws
  THEN [thrown |-> FALSE, attempted |-> <<0, 1>>, value |-> input.stage1,
        needsCleanup |-> TRUE, tracked |-> <<>>]
  ELSE IF input.stage2 # Throws
  THEN [thrown |-> FALSE, attempted |-> <<0, 1, 2>>, value |-> input.stage2,
        needsCleanup |-> TRUE, tracked |-> <<>>]
  ELSE IF input.extracted /\ input.stage3 # Throws
  THEN [thrown |-> FALSE, attempted |-> <<0, 1, 2, 3>>, value |-> input.stage3,
        needsCleanup |-> TRUE, tracked |-> <<>>]
  ELSE [thrown |-> TRUE,
        attempted |-> IF input.extracted THEN <<0, 1, 2, 3>> ELSE <<0, 1, 2>>,
        value |-> NoData, needsCleanup |-> TRUE, tracked |-> <<>>]

\* the try block of parseJson extracting before it cleans aggressively
parseStagesExtractFirst(input) ==
  IF input.stage0 # Throws
  THEN [thrown |-> FALSE, attempted |-> <<0>>, value |-> input.stage0,
        needsCleanup |-> FALSE, tracked |-> <<>>]
  ELSE IF input.stage1 # Throws
  THEN [thrown |-> FALSE, attempted |-> <<0, 1>>, value |-> input.stage1,
        needsCleanup |-> TRUE, tracked |-> <<ParseError("json_auto_fixed")>>]
  ELSE IF input.extracted /\ input.stage3 # Throws
  THEN [thrown |-> FALSE, attempted |-> <<0, 1, 3>>, value |-> input.stage3,
        needsCleanup |-> TRUE,
        tracked |-> <<ParseError("json_extracted_and_fixed")>>]
  ELSE IF input.stage2 # Throws
  THEN [thrown |-> FALSE,
        attempted |-> IF input.extracted THEN <<0, 1, 3, 2>> ELSE <<0, 1, 2>>,
        value |-> input.stage2, needsCleanup |-> TRUE,
        tracked |-> <<ParseError("json_aggressively_fixed")>>]
  ELSE [thrown |-> TRUE,
        attempted |-> IF input.extracted THEN <<0, 1, 3, 2>> ELSE <<0, 1, 2>>,
        value |-> NoData, needsCleanup |-> TRUE, tracked |-> <<>>]

\* the try block of parseJson (lines 30-99): the stages attempted, the value
\* parsed, whether the first error is rethrown, and the events tracked before
\* json_parsed.  The trackEvent call of a repair stands in the try of its
\* stage: when it throws, the stage has failed and the next one is tried.
parseStages(input) ==
  LET caught == SinkThrows("json_parse_error")
      t1 == IF input.stage1 # Throws
            THEN <<ParseError("json_auto_fixed")>> ELSE <<>>
      t2 == IF input.stage2 # Throws
            THEN Append(t1, ParseError("json_aggressively_fixed")) ELSE t1
      t3 == IF input.extracted /\ input.stage3 # Throws
            THEN Append(t2, ParseError("json_extracted_and_fixed")) ELSE t2
  IN
  IF input.stage0 # Throws
  THEN [thrown |-> FALSE, attempted |-> <<0>>, value |-> input.stage0,
        needsCleanup |-> FALSE, tracked |-> <<>>]
  ELSE IF input.stage1 # Throws /\ ~caught
  THEN [thrown |-> FALSE, attempted |-> <<0, 1>>, value |-> input.stage1,
        needsCleanup |-> TRUE, tracked |-> t1]
  ELSE IF input.stage2 # Throws /\ ~caught
  THEN [thrown |-> FALSE, attempted |-> <<0, 1, 2>>, value |-> input.stage2,
        needsCleanup |-> TRUE, tracked |-> t2]
  ELSE IF input.extracted /\ input.stage3 # Throws /\ ~caught
  THEN [thrown |-> FALSE, attempted |-> <<0, 1, 2, 3>>, value |-> input.stage3,
        needsCleanup |-> TRUE, tracked |-> t3]
  ELSE [thrown |-> TRUE,
        attempted |-> IF input.extracted THEN <<0, 1, 2, 3>> ELSE <<0, 1, 2>>,
        value |-> NoData, needsCleanup |-> TRUE, tracked |-> t3]

\* parseJson taking a blank input for one that the strict parser rejects
parseJsonOfBlank(input) ==
  IF input.blank
  THEN [threw |-> FALSE,
        result |-> detailedError(input.firstError, input),
        tracked |-> <<ParseError("final_parse_failure")>>,
        attempted |-> <<0, 1, 2>>]
  ELSE LET st == parseStages(input) IN
       IF ~st.thrown
       THEN [threw |-> FALSE,
             result |-> [success |-> TRUE, data |-> st.value, error |-> "",
                         errorDetails |-> <<>>],
             tracked |-> Append(st.tracked,
                Event("json_parsed", [nodeCount |-> countNodes(st.value),
                                      wasFixed |-> st.needsCleanup])),
             attempted |-> st.attempted]
       ELSE [threw |-> FALSE,
             result |-> detailedError(input.firstError, input),
             tracked |-> Append(st.tracked, ParseError("final_parse_failure")),
             attempted |-> st.attempted]

\* parseJson without its outer catch: the first error leaves the call
parseJsonUncaught(input) ==
  IF input.blank
  THEN [threw |-> FALSE,
        result |-> [success |-> FALSE, data |-> NoData,
                    error |-> "Input is empty", errorDetails |-> <<>>],
        tracked |-> <<>>, attempted |-> <<>>]
  ELSE LET st == parseStages(input) IN
       [threw |-> st.thrown,
        result |-> [success |-> TRUE, data |-> st.value, error |-> "",
                    errorDetails |-> <<>>],
        tracked |-> st.tracked, attempted |-> st.attempted]

\* parseJson(input): whether it threw, the ParseResult it returned if not,
\* the events tracked, in order, and the stages attempted.  When trackEvent
\* throws at json_parsed the catch of parseJson takes the exception of the
\* sink, which has no message and no location, for a parse error.
parseJson(input) ==
  IF input.blank
  THEN [threw |-> FALSE,
        result |-> [success |-> FALSE, data |-> NoData,
                    error |-> "Input is empty", errorDetails |-> <<>>],
        tracked |-> <<>>, attempted |-> <<>>]
  ELSE LET st == parseStages(input)
           parsed == Event("json_parsed", [nodeCount |-> countNodes(st.value),
                                           wasFixed |-> st.needsCleanup])
       IN
       IF ~st.thrown /\ ~SinkThrows("json_parsed")
       THEN [threw |-> FALSE,
             result |-> [success |-> TRUE, data |-> st.value, error |-> "",
                         errorDetails |-> <<>>],
             tracked |-> Append(st.tracked, parsed),
             attempted |-> st.attempted]
       ELSE [threw |-> SinkThrows("json_parse_error"),
             result |-> detailedError(IF st.thrown THEN input.firstError
                                      ELSE NoError, input),
             tracked |-> Append(IF st.thrown THEN st.tracked
                                ELSE Append(st.tracked, parsed),
                                ParseError("final_parse_failure")),
             attempted |-> st.attempted]

----------------------------------------------------------------------------
(* The state machine: one client of one JsonParser *)

NoResult ==
  [success |-> FALSE, data |-> NoData, error |-> "", errorDetails |-> <<>>]

\* the events at which the sink may throw; "none" for a sink that never does
SinkFailures ==
  { "none", "json_parsed", "json_parse_error", "node_expanded", "node_collapsed",
    "expand_all_nodes", "collapse_all_nodes", "search_performed" }

\* this.stats after resetStats()
NoStats ==
  [totalNodes |-> 0, maxDepth |-> 0,
   typeDistribution |-> [t \in {"string", "object", "array"} |-> 0],
   arrayLengths |-> <<>>, objectSizes |-> <<>>]

\* the useState defaults of App
NoApp ==
  [nodes |-> <<>>, filteredNodes |-> <<>>, originalNodes |-> <<>>,
   searchQuery |-> "", caseSensitive |-> FALSE, searchMatchIndices |-> <<>>,
   currentMatchIndex |-> 0, selectedNodePath |-> ""]

\* no array has been passed to an editor call
NotRetained == [before |-> <<>>, after |-> <<>>]

InitQuiet ==
  /\ parseResult = NoResult
  /\ nodes = <<>>
  /\ matchIndices = <<>>
  /\ events = <<>>
  /\ selectedNodePath = ""
  /\ inputText = ""
  /\ firstError = NoError
  /\ attempted = <<>>
  /\ threw = FALSE
  /\ stats = NoStats
  /\ retained = NotRetained
  /\ app = NoApp

\* a sink that never throws
Init == InitQuiet /\ throwsOn = "none"

\* a sink that may throw at the events of one name
InitSink == InitQuiet /\ throwsOn \in SinkFailures

\* what a call leaves behind that is not of the sequence
Returned(r) ==
  /\ parseResult' = (IF r.threw THEN parseResult ELSE r.result)
  /\ events' = r.tracked
  /\ threw' = r.threw
  /\ nodes' = <<>>
  /\ matchIndices' = <<>>

\* the client parses the input of its session, given by what the strict
\* parser makes of it
ParseJson ==
  /\ parseResult = NoResult
  /\ ~threw
  /\ \E input \in Inputs :
       \E r \in {parseJson(input)} : Returned(r)
  /\ UNCHANGED <<selectedNodePath, inputText, firstError, attempted, throwsOn,
                 stats, retained, app>>

\* the client parses the text of its session
ParseText ==
  /\ parseResult = NoResult
  /\ ~threw
  /\ \E text \in Texts :
       \E input \in {InputOf(text, NoError)} :
       \E error \in FirstErrors(text) :
         \E r \in {parseJson([input EXCEPT !.firstError = error])} :
           /\ Returned(r)
           /\ inputText' = text
           /\ firstError' = error
           /\ attempted' = r.attempted
  /\ UNCHANGED <<selectedNodePath, throwsOn, stats, retained, app>>

\* what the operations on the sequence leave alone
session == <<parseResult, selectedNodePath, inputText, firstError, attempted, throwsOn>>

\* a call that tracks the events of tracked and then returns result: the
\* client has result unless the sink threw
Call(tracked, result) ==
  /\ events' = Delivered(tracked)
  /\ threw' = SinkThrew(tracked)
  /\ nodes' = (IF SinkThrew(tracked) THEN nodes ELSE result)

\* the client flattens the value it parsed
ConvertToNodesCall ==
  /\ parseResult.success
  /\ nodes' = convertToNodes(RootKey)
  /\ matchIndices' = <<>>
  /\ events' = <<>>
  /\ threw' = FALSE
  /\ UNCHANGED session

\* what the client searches for
Queries == { "A", ".", " " }

\* a path no node has
MissingPath == "root.z"

\* the paths the client passes to expandNode / collapseNode
TargetPaths == { nodes[i].path : i \in 1..Len(nodes) } \cup {MissingPath}

ExpandNodeCall(targetPath) ==
  /\ nodes # <<>>
  /\ Call(expandNodeTracked(nodes, targetPath), expandNode(nodes, targetPath))
  /\ matchIndices' = <<>>
  /\ UNCHANGED session

CollapseNodeCall(targetPath) ==
  /\ nodes # <<>>
  /\ Call(collapseNodeTracked(nodes, targetPath), collapseNode(nodes, targetPath))
  /\ matchIndices' = <<>>
  /\ UNCHANGED session

ExpandAllNodesCall ==
  /\ nodes # <<>>
  /\ \E result \in {expandAllNodes(nodes)} :
       Call(IF findRoot(nodes) = 0 THEN <<>> ELSE <<expandAllEvent(result)>>, result)
  /\ matchIndices' = <<>>
  /\ UNCHANGED session

CollapseAllNodesCall ==
  /\ nodes # <<>>
  /\ \E st \in {collapseAllRun(nodes)} :
       Call(Append(st.tracked, collapseAllEvent(nodes, st)), st.result)
  /\ matchIndices' = <<>>
  /\ UNCHANGED session

SearchNodesCall ==
  /\ nodes # <<>>
  /\ \E query \in Queries, caseSensitive \in BOOLEAN :
    \E r \in {searchNodes(nodes, query, caseSensitive)} :
    /\ Call(searchEvents(nodes, query, r), r.nodes)
    /\ matchIndices' = (IF SinkThrew(searchEvents(nodes, query, r)) THEN <<>>
                        ELSE r.matchIndices)
  /\ UNCHANGED session

(* Spec follows the sequence the client holds, and not the private stats   *)
(* of the parser, which only getStats() shows; StatsSpec follows both.     *)

ConvertToNodes == ConvertToNodesCall /\ UNCHANGED <<stats, retained, app>>

ExpandNode ==
  \E targetPath \in TargetPaths :
    ExpandNodeCall(targetPath) /\ UNCHANGED <<stats, retained, app>>

CollapseNode ==
  \E targetPath \in TargetPaths :
    CollapseNodeCall(targetPath) /\ UNCHANGED <<stats, retained, app>>

ExpandAllNodes == ExpandAllNodesCall /\ UNCHANGED <<stats, retained, app>>

CollapseAllNodes == CollapseAllNodesCall /\ UNCHANGED <<stats, retained, app>>

SearchNodes == SearchNodesCall /\ UNCHANGED <<stats, retained, app>>

Next ==
  \/ ParseJson
  \/ ConvertToNodes
  \/ ExpandNode
  \/ CollapseNode
  \/ ExpandAllNodes
  \/ CollapseAllNodes
  \/ SearchNodes

Spec == Init /\ [][Next]_vars

\* the same client and a sink that may throw
SinkSpec == InitSink /\ [][Next]_vars

----------------------------------------------------------------------------
(* The array a caller passes to an editor call.  result = [...nodes] copies *)
(* the array and not its node objects: node = result[nodeIndex] is the      *)
(* object of the caller's array, and the flag is assigned to it before      *)
(* result[nodeIndex] = {...node} puts a copy in its place.                  *)

\* the caller's array after expandNode(nodes, targetPath)
expandNodeInput(ns, targetPath) ==
  IF Acts(ns, targetPath, FALSE)
  THEN [ns EXCEPT ![findIndex(ns, targetPath)].isExpanded = TRUE]
  ELSE ns

\* the caller's array after collapseNode(nodes, targetPath)
collapseNodeInput(ns, targetPath) ==
  IF Acts(ns, targetPath, TRUE)
  THEN [ns EXCEPT ![findIndex(ns, targetPath)].isExpanded = FALSE]
  ELSE ns

\* the caller's array after the for loop of collapseAllNodes from
\* collapsibleNodes[i] on.  st.origin[k] is the index in the caller's array
\* of the object st.result[k], and 0 when st.result[k] is a copy.
RECURSIVE collapseLoopInput(_, _, _)
collapseLoopInput(collapsibleNodes, i, st) ==
  IF i > Len(collapsibleNodes) THEN st.input
  ELSE LET targetPath == collapsibleNodes[i].path
           nodeIndex == findIndex(st.result, targetPath)
       IN IF ~Acts(st.result, targetPath, TRUE)
          THEN collapseLoopInput(collapsibleNodes, i + 1, st)
          ELSE LET count == removeCount(st.result, nodeIndex + 1, targetPath)
                   from == st.origin[nodeIndex]
               IN collapseLoopInput(collapsibleNodes, i + 1,
                    [result |-> collapseNode(st.result, targetPath),
                     origin |-> SubSeq(st.origin, 1, nodeIndex - 1) \o <<0>>
                                  \o SubSeq(st.origin, nodeIndex + 1 + count,
                                            Len(st.origin)),
                     input |-> IF from = 0 THEN st.input
                               ELSE [st.input EXCEPT ![from].isExpanded = FALSE]])

\* the caller's array after collapseAllNodes(nodes)
collapseAllNodesInput(ns) ==
  collapseLoopInput(filterExpanded(ns, 1), 1,
    [result |-> ns, origin |-> [k \in 1..Len(ns) |-> k], input |-> ns])

\* the caller keeps the array it passes
Retained(after) == retained' = [before |-> nodes, after |-> after]

ExpandNodeRetained ==
  \E targetPath \in TargetPaths :
    /\ ExpandNodeCall(targetPath)
    /\ Retained(expandNodeInput(nodes, targetPath))
    /\ UNCHANGED <<stats, app>>

CollapseNodeRetained ==
  \E targetPath \in TargetPaths :
    /\ CollapseNodeCall(targetPath)
    /\ Retained(collapseNodeInput(nodes, targetPath))
    /\ UNCHANGED <<stats, app>>

CollapseAllNodesRetained ==
  /\ CollapseAllNodesCall
  /\ Retained(collapseAllNodesInput(nodes))
  /\ UNCHANGED <<stats, app>>

RetainNext ==
  \/ ParseJson
  \/ ConvertToNodes
  \/ ExpandNodeRetained
  \/ CollapseNodeRetained
  \/ CollapseAllNodesRetained

\* the client and the array it passed last
RetainSpec == Init /\ [][RetainNext]_vars

----------------------------------------------------------------------------
(* The stats of the parser.  Every call of processValue counts the node it  *)
(* pushes, before it visits the children: the stats after a traversal are   *)
(* the stats before it with the nodes it pushed counted in order.           *)

\* the most processValue calls counted in stats
MaxTotal == 6

\* processValue leaving stats.maxDepth as it was
recordNodeShallow(st, node) ==
  [totalNodes |-> st.totalNodes + 1,
   maxDepth |-> st.maxDepth,
   typeDistribution |-> [st.typeDistribution EXCEPT ![node.type] = @ + 1],
   arrayLengths |-> IF node.type = "array"
                    THEN Append(st.arrayLengths, node.childCount[1])
                    ELSE st.arrayLengths,
   objectSizes |-> IF node.type = "object"
                   THEN Append(st.objectSizes, node.childCount[1])
                   ELSE st.objectSizes]

\* the updates of this.stats in one call of processValue
recordNode(st, node) ==
  [totalNodes |-> st.totalNodes + 1,
   maxDepth |-> Max(st.maxDepth, node.depth),
   typeDistribution |-> [st.typeDistribution EXCEPT ![node.type] = @ + 1],
   arrayLengths |-> IF node.type = "array"
                    THEN Append(st.arrayLengths, node.childCount[1])
                    ELSE st.arrayLengths,
   objectSizes |-> IF node.type = "object"
                   THEN Append(st.objectSizes, node.childCount[1])
                   ELSE st.objectSizes]

\* this.stats after the processValue calls that pushed pushed[i], ...
RECURSIVE recordNodes(_, _, _)
recordNodes(st, pushed, i) ==
  IF i > Len(pushed) THEN st
  ELSE recordNodes(recordNode(st, pushed[i]), pushed, i + 1)

\* getStats(): a copy of this.stats
getStats == stats

\* convertToNodes: resetStats(), then processValue from the root
ConvertToNodesCounted ==
  /\ ConvertToNodesCall
  /\ stats' = recordNodes(NoStats, convertToNodes(RootKey), 1)
  /\ UNCHANGED <<retained, app>>

\* expandNode: processValue for each child of the node it expands
ExpandNodeCounted ==
  \E targetPath \in TargetPaths :
    /\ ExpandNodeCall(targetPath)
    /\ \E counted \in {IF Acts(nodes, targetPath, FALSE)
                       THEN recordNodes(stats,
                              childNodesOf(nodes[findIndex(nodes, targetPath)]), 1)
                       ELSE stats} :
         /\ counted.totalNodes <= MaxTotal
         /\ stats' = counted
    /\ UNCHANGED <<retained, app>>

StatsNext ==
  \/ ParseJson
  \/ ConvertToNodesCounted
  \/ ExpandNodeCounted
  \/ CollapseNode
  \/ ExpandAllNodes
  \/ CollapseAllNodes
  \/ SearchNodes

\* the client and the stats of its parser
StatsSpec == Init /\ [][StatsNext]_vars

\* the client parsing an input, given as a text or by its outcomes
ParserNext ==
  \/ ParseJson
  \/ ParseText

ParserSpec == Init /\ [][ParserNext]_vars

\* the user selects a node of the tree; the table view shows its value
SelectNode ==
  /\ nodes # <<>>
  /\ \E i \in 1..Len(nodes) : selectedNodePath' = nodes[i].path
  /\ UNCHANGED <<parseResult, nodes, matchIndices, events, inputText,
                 firstError, attempted, throwsOn, threw, stats, retained, app>>

\* the table view over the parsed value, flattened and fully expanded
TableNext ==
  \/ ParseJson
  \/ ConvertToNodes
  \/ ExpandAllNodes
  \/ SelectNode

TableSpec == Init /\ [][TableNext]_vars

----------------------------------------------------------------------------
(* JsonInput (components/JsonInput.tsx).  handleJumpToError selects up to  *)
(* five characters of the textarea at the location of errorDetails.        *)

NoSelection == <<>>

\* the arguments of textarea.setSelectionRange, <<>> when the handler
\* returns before it
handleJumpToError(jsonText, errorDetails) ==
  IF jsonText = "" THEN NoSelection
  ELSE
    LET lines == split(jsonText, "\n")
        fromPosition == Min(errorDetails.position[1], Len(jsonText))
        targetLine == errorDetails.line[1] - 1
        targetColumn == Min(errorDetails.column[1] - 1, Len(lines[targetLine + 1]))
        calculated ==
          IF errorDetails.position # NoNumber THEN fromPosition
          ELSE IF errorDetails.line # NoNumber /\ errorDetails.column # NoNumber
               THEN IF targetLine >= 0 /\ targetLine < Len(lines)
                    THEN lengthOfLines(lines, targetLine) + Max(0, targetColumn)
                    ELSE 0
               ELSE 0
        cursorPosition == Min(calculated, Len(jsonText))
    IN <<[selectionStart |-> cursorPosition,
          selectionEnd |-> Min(cursorPosition + 5, Len(jsonText))]>>

----------------------------------------------------------------------------
(* App (App.tsx).  A handler is given as the state it sets, a record of    *)
(* the useState values it reads and writes, and as an action on app.  The  *)
(* value of jsonData is parseResult.data.  The search bar and the tree are *)
(* rendered when jsonData is set.                                          *)

\* the largest value the App is given
MaxAppNodes == 3

\* what the user submits: a value the parser makes of the text at Stage 0, a
\* text no stage parses, a blank text
AppInputs ==
  { Input(FALSE, d, Throws, Throws, FALSE, Throws) :
      d \in UNION { ValuesOfSize(n) : n \in 1..MaxAppNodes } }
    \cup { Input(FALSE, Throws, Throws, Throws, FALSE, Throws),
           Input(TRUE, Throws, Throws, Throws, FALSE, Throws) }

\* what the user types into the search box; "" clears it
AppQueries == Queries \cup {""}

\* setNodes, setFilteredNodes and setOriginalNodes of one array
showNodes(a, ns) ==
  [a EXCEPT !.nodes = ns, !.filteredNodes = ns, !.originalNodes = ns]

\* the state set by the searchNodes branch of handleSearch, handleExpandAll
\* and handleCollapseAll
showSearchResult(a, searchResult) ==
  [a EXCEPT !.nodes = searchResult.nodes,
            !.filteredNodes = searchResult.nodes,
            !.searchMatchIndices = searchResult.matchIndices,
            !.currentMatchIndex = 0]

\* handleJsonSubmit after parseJson returned result and, for a success,
\* convertToNodes returned newNodes
handleJsonSubmit(a, result, newNodes) ==
  IF result.success /\ result.data # NoData
  THEN [showNodes(a, newNodes) EXCEPT !.selectedNodePath = RootKey]
  ELSE showNodes(a, <<>>)

handleToggleNode(a, path) ==
  IF a.searchQuery # "" THEN a
  ELSE IF findIndex(a.nodes, path) = 0 THEN a
  ELSE IF a.nodes[findIndex(a.nodes, path)].isExpanded
       THEN showNodes(a, collapseNode(a.nodes, path))
       ELSE showNodes(a, expandNode(a.nodes, path))

handleToggleNodeTracked(a, path) ==
  IF a.searchQuery # "" THEN <<>>
  ELSE IF findIndex(a.nodes, path) = 0 THEN <<>>
  ELSE IF a.nodes[findIndex(a.nodes, path)].isExpanded
       THEN collapseNodeTracked(a.nodes, path)
       ELSE expandNodeTracked(a.nodes, path)

handleSearch(a, query, isCaseSensitive) ==
  LET b == [a EXCEPT !.searchQuery = query, !.caseSensitive = isCaseSensitive]
  IN IF ~IsBlank(query)
     THEN LET searchResult == searchNodes(a.originalNodes, query, isCaseSensitive)
              c == showSearchResult(b, searchResult)
          IN IF Len(searchResult.matchIndices) > 0
             THEN [c EXCEPT !.selectedNodePath =
                     searchResult.nodes[searchResult.matchIndices[1] + 1].path]
             ELSE c
     ELSE [b EXCEPT !.filteredNodes = a.nodes,
                    !.searchMatchIndices = <<>>, !.currentMatchIndex = 0]

\* handleExpandAll and handleCollapseAll after the parser returned changed
handleChangeAll(a, changed) ==
  LET b == [a EXCEPT !.originalNodes = changed] IN
  IF a.searchQuery # ""
  THEN showSearchResult(b, searchNodes(changed, a.searchQuery, a.caseSensitive))
  ELSE [b EXCEPT !.nodes = changed, !.filteredNodes = changed]

handleChangeAllTracked(a, changed, featureName) ==
  (IF a.searchQuery # ""
   THEN searchNodesTracked(changed, a.searchQuery, a.caseSensitive)
   ELSE <<>>) \o <<Event("feature_used", [featureName |-> featureName])>>

handleExpandAll(a) == handleChangeAll(a, expandAllNodes(a.originalNodes))

handleCollapseAll(a) == handleChangeAll(a, collapseAllNodes(a.originalNodes))

\* the node the navigation selects, when there is one at the index
selectMatch(a, index) ==
  LET nodeIndex == a.searchMatchIndices[index + 1] IN
  IF nodeIndex + 1 \in 1..Len(a.filteredNodes)
  THEN [a EXCEPT !.currentMatchIndex = index,
                 !.selectedNodePath = a.filteredNodes[nodeIndex + 1].path]
  ELSE [a EXCEPT !.currentMatchIndex = index]

\* handleNavigateToNextMatch without the wrap-around
handleNavigateToNextMatchUnwrapped(a) ==
  IF Len(a.searchMatchIndices) > 0
  THEN [a EXCEPT !.currentMatchIndex = a.currentMatchIndex + 1]
  ELSE a

handleNavigateToNextMatch(a) ==
  IF Len(a.searchMatchIndices) > 0
  THEN selectMatch(a, (a.currentMatchIndex + 1) % Len(a.searchMatchIndices))
  ELSE a

handleNavigateToPrevMatch(a) ==
  IF Len(a.searchMatchIndices) > 0
  THEN selectMatch(a, IF a.currentMatchIndex = 0
                      THEN Len(a.searchMatchIndices) - 1
                      ELSE a.currentMatchIndex - 1)
  ELSE a

\* search_navigation, when there is a match to go to
navigationTracked(a, direction) ==
  IF Len(a.searchMatchIndices) > 0
  THEN <<Event("search_navigation", [direction |-> direction])>>
  ELSE <<>>

\* handleClear
handleClear(a) == NoApp

\* the parser state the App does not show
unseen == <<nodes, matchIndices, selectedNodePath, inputText, firstError,
            throwsOn, threw, stats, retained>>

\* jsonData is set: the search bar and the tree are rendered
Rendered == parseResult.success

\* handleJsonSubmit, and handleViewerTabClick parsing the text: parseJson
\* and, for a success, convertToNodes of its data
HandleJsonSubmit ==
  /\ \E input \in AppInputs :
       \E r \in {parseJson(input)} :
         /\ parseResult' = r.result
         /\ events' = r.tracked
         /\ attempted' = r.attempted
  /\ app' = handleJsonSubmit(app, parseResult', convertToNodes(RootKey)')
  /\ UNCHANGED unseen

HandleToggleNode ==
  /\ Rendered
  /\ \E i \in 1..Len(app.filteredNodes) :
       LET node == app.filteredNodes[i] IN
       /\ IsContainerType(node.type)
       /\ node.childCount[1] > 0
       /\ app' = handleToggleNode(app, node.path)
       /\ events' = handleToggleNodeTracked(app, node.path)
  /\ UNCHANGED <<parseResult, attempted, unseen>>

HandleSearch ==
  /\ Rendered
  /\ \E query \in AppQueries :
       /\ app' = handleSearch(app, query, app.caseSensitive)
       /\ events' = IF IsBlank(query) THEN <<>>
                    ELSE searchNodesTracked(app.originalNodes, query,
                                            app.caseSensitive)
  /\ UNCHANGED <<parseResult, attempted, unseen>>

\* the Aa button: setCaseSensitive(!caseSensitive)
SetCaseSensitive ==
  /\ Rendered
  /\ app' = [app EXCEPT !.caseSensitive = ~app.caseSensitive]
  /\ events' = <<>>
  /\ UNCHANGED <<parseResult, attempted, unseen>>

HandleExpandAll ==
  /\ Rendered
  /\ \E changed \in {expandAllNodes(app.originalNodes)} :
       /\ app' = handleChangeAll(app, changed)
       /\ events' = expandAllNodesTracked(app.originalNodes)
                      \o handleChangeAllTracked(app, changed, "expand_all")
  /\ UNCHANGED <<parseResult, attempted, unseen>>

HandleCollapseAll ==
  /\ Rendered
  /\ \E changed \in {collapseAllNodes(app.originalNodes)} :
       /\ app' = handleChangeAll(app, changed)
       /\ events' = collapseAllNodesTracked(app.originalNodes)
                      \o handleChangeAllTracked(app, changed, "collapse_all")
  /\ UNCHANGED <<parseResult, attempted, unseen>>

HandleNavigateToNextMatch ==
  /\ Rendered
  /\ app' = handleNavigateToNextMatch(app)
  /\ events' = navigationTracked(app, "next")
  /\ UNCHANGED <<parseResult, attempted, unseen>>

HandleNavigateToPrevMatch ==
  /\ Rendered
  /\ app' = handleNavigateToPrevMatch(app)
  /\ events' = navigationTracked(app, "prev")
  /\ UNCHANGED <<parseResult, attempted, unseen>>

HandleClear ==
  /\ app' = handleClear(app)
  /\ parseResult' = NoResult
  /\ events' = <<Event("feature_used", [featureName |-> "clear"])>>
  /\ UNCHANGED <<attempted, unseen>>

AppNext ==
  \/ HandleJsonSubmit
  \/ HandleToggleNode
  \/ HandleSearch
  \/ SetCaseSensitive
  \/ HandleExpandAll
  \/ HandleCollapseAll
  \/ HandleNavigateToNextMatch
  \/ HandleNavigateToPrevMatch
  \/ HandleClear

AppSpec == Init /\ [][AppNext]_vars

----------------------------------------------------------------------------
(* The Value tree by positions *)

\* a is a strict ancestor of b
IsStrictPrefix(a, b) == Len(a) < Len(b) /\ SubSeq(b, 1, Len(a)) = a

\* the positions of the tree under ref, ref first, in pre-order
RECURSIVE PreOrder(_), PreOrderFrom(_, _)
PreOrder(ref) == <<ref>> \o PreOrderFrom(ref, 1)
PreOrderFrom(ref, i) ==
  IF i > Len(ValueAt(ref).kids) THEN <<>>
  ELSE PreOrder(Append(ref, i)) \o PreOrderFrom(ref, i + 1)

\* the positions of the tree under ref, as a set
RECURSIVE PositionsUnder(_)
PositionsUnder(ref) ==
  {ref} \cup UNION { PositionsUnder(Append(ref, i)) : i \in 1..Len(ValueAt(ref).kids) }

Positions == PositionsUnder(<<>>)

\* the fields of a node the tree view shows (all but value)
NodeView(n) ==
  [key |-> n.key, path |-> n.path, depth |-> n.depth, type |-> n.type,
   isExpanded |-> n.isExpanded, childCount |-> n.childCount]

SameNodes(a, b) ==
  /\ Len(a) = Len(b)
  /\ \A i \in 1..Len(a) : NodeView(a[i]) = NodeView(b[i])

\* the client holds the sequence convertToNodes returns for its value
IsFresh == parseResult.success /\ nodes = convertToNodes(RootKey)

ContainerPaths(ns) ==
  { ns[i].path : i \in { j \in 1..Len(ns) : IsContainerType(ns[j].type) } }

\* the first index of ns whose node has path p
FirstWithPath(ns, p) ==
  CHOOSE i \in 1..Len(ns) :
    ns[i].path = p /\ \A j \in 1..(i - 1) : ns[j].path # p

BeginsUnder(path, p) == startsWith(path, p \o ".") \/ startsWith(path, p \o "[")

\* the length of the run of nodes directly after ns[i] whose paths begin
\* with p followed by "." or "["
RunUnder(ns, i, p) ==
  CHOOSE k \in 0..(Len(ns) - i) :
    /\ \A j \in 1..k : BeginsUnder(ns[i + j].path, p)
    /\ i + k = Len(ns) \/ ~BeginsUnder(ns[i + k + 1].path, p)

\* ns with ns[i] marked not expanded and the run after it left out
WithoutRunUnder(ns, i, p) ==
  SubSeq(ns, 1, i - 1) \o <<[ns[i] EXCEPT !.isExpanded = FALSE]>>
    \o SubSeq(ns, i + RunUnder(ns, i, p) + 1, Len(ns))

----------------------------------------------------------------------------
(* C1 *)

\* C1 as stated: on a freshly flattened sequence, collapseNode after
\* expandNode at the path of any container node gives back the sequence,
\* node by node.
C1_ExpandCollapseIsIdentity ==
  IsFresh =>
    \A p \in ContainerPaths(nodes) :
      SameNodes(collapseNode(expandNode(nodes, p), p), nodes)

\* C1: on a freshly flattened sequence, collapseNode after expandNode at the
\* path p of a container node gives the sequence with the first node of path
\* p marked not expanded and without the run of nodes directly after it
\* whose paths begin with p + "." or p + "["; so it gives back the sequence
\* exactly when that node was not expanded and no such run follows it.
C1_ExpandCollapseDropsRun ==
  IsFresh =>
    \A p \in ContainerPaths(nodes) :
      LET i == FirstWithPath(nodes, p)
          back == collapseNode(expandNode(nodes, p), p)
      IN /\ SameNodes(back, WithoutRunUnder(nodes, i, p))
         /\ SameNodes(back, nodes) <=>
              (~nodes[i].isExpanded /\ RunUnder(nodes, i, p) = 0)

\* a container of depth 2 with a child was expanded and collapsed again,
\* and the sequence is the fresh one
C1_CollapsedBackToFresh ==
  /\ IsFresh
  /\ Len(events) = 1
  /\ events[1].event = "node_collapsed"
  /\ events[1].props.nodeDepth >= 2
  /\ events[1].props.childCount # NoCount
  /\ events[1].props.childCount[1] >= 1

----------------------------------------------------------------------------
(* C2 *)

\* C2: no two nodes of the sequence the client holds have the same path.
C2_PathsUnique ==
  \A i, j \in 1..Len(nodes) : i # j => nodes[i].path # nodes[j].path

----------------------------------------------------------------------------
(* C3 *)

\* where position ref comes in the pre-order of the whole tree
PreOrderIndex(ref) ==
  LET order == PreOrder(<<>>) IN CHOOSE k \in 1..Len(order) : order[k] = ref

\* the length of the maximal run of nodes directly after ns[i] that are
\* deeper than ns[i]
DeeperRun(ns, i) ==
  CHOOSE k \in 0..(Len(ns) - i) :
    /\ \A j \in 1..k : ns[i + j].depth > ns[i].depth
    /\ i + k = Len(ns) \/ ns[i + k + 1].depth <= ns[i].depth

\* C3: the sequence the client holds lists positions of the value in
\* pre-order, and for every index i the nodes that are descendants of
\* nodes[i] in the value are exactly the nodes of the maximal run of deeper
\* nodes directly after i.
C3_PreOrderRuns ==
  /\ LET at == [i \in 1..Len(nodes) |-> PreOrderIndex(nodes[i].value)]
     IN \A i, j \in 1..Len(nodes) : i < j => at[i] < at[j]
  /\ \A i, j \in 1..Len(nodes) :
       IsStrictPrefix(nodes[i].value, nodes[j].value)
         <=> (i < j /\ j <= i + DeeperRun(nodes, i))

\* a container of depth 2 or more has just been expanded, and some node is
\* followed by a run of two or more descendants
C3_ExpandedDeepRun ==
  /\ Len(events) = 1
  /\ events[1].event = "node_expanded"
  /\ events[1].props.nodeDepth >= 2
  /\ \E i \in 2..Len(nodes) : DeeperRun(nodes, i) >= 2

----------------------------------------------------------------------------
(* C4 *)

\* the path the grammar gives the position ref: "root" for the root,
\* parent.key under an object, parent[index] under an array
RECURSIVE GrammarPath(_)
GrammarPath(ref) ==
  IF ref = <<>> THEN RootKey
  ELSE LET parent == SubSeq(ref, 1, Len(ref) - 1)
           i == ref[Len(ref)]
       IN IF ValueAt(parent).type = "array"
          THEN GrammarPath(parent) \o "[" \o NatToString(i - 1) \o "]"
          ELSE GrammarPath(parent) \o "." \o ValueAt(parent).kids[i].key

\* C4: the path of every node is the one the grammar gives its position:
\* "root", parentPath.key, or parentPath[i] with no dot before the bracket.
C4_PathGrammar ==
  \A i \in 1..Len(nodes) : nodes[i].path = GrammarPath(nodes[i].value)

----------------------------------------------------------------------------
(* C5 *)

\* the lookup found exactly the value at ref: the same part of data, or an
\* equal scalar
FoundValue(found, ref) ==
  /\ found.kind = "value"
  /\ \/ found.ref = ref
     \/ /\ ~IsContainerType(ValueAt(ref).type)
        /\ ValueAt(found.ref) = ValueAt(ref)

\* C5: when the tree is fully expanded and a node is selected, the table
\* view's lookup of the selected path yields the value of every node that
\* has this path.
C5_LookupFindsNodeValue ==
  ( /\ parseResult.success
    /\ nodes = expandAllNodes(convertToNodes(RootKey))
    /\ selectedNodePath # "" )
  => \A i \in 1..Len(nodes) :
       nodes[i].path = selectedNodePath
         => FoundValue(selectedNodeData, nodes[i].value)

----------------------------------------------------------------------------
(* C6 *)

ValuesOf(ns) == [i \in 1..Len(ns) |-> ns[i].value]

\* C6: whatever sequence the client holds, expandAllNodes of it has as many
\* nodes as the value has positions, lists the positions in pre-order, has
\* every container marked expanded, and is the sequence expandAllNodes
\* gives for the freshly flattened value.
C6_ExpandAllComplete ==
  nodes # <<>> =>
    LET expandedNodes == expandAllNodes(nodes) IN
    /\ Len(expandedNodes) = countNodes(parseResult.data)
    /\ ValuesOf(expandedNodes) = PreOrder(<<>>)
    /\ \A i \in 1..Len(expandedNodes) :
         IsContainerType(expandedNodes[i].type) => expandedNodes[i].isExpanded
    /\ expandedNodes = expandAllNodes(convertToNodes(RootKey))

\* expandAllNodes has just run and the sequence shows the child of a
\* container of depth 2 or more
C6_ExpandedBelowDepthTwo ==
  /\ Len(events) = 1
  /\ events[1].event = "expand_all_nodes"
  /\ \E i \in 1..Len(nodes) : nodes[i].depth >= 3

----------------------------------------------------------------------------
(* C7 *)

\* C7: whatever sequence the client holds, collapseAllNodes of it has one
\* node: the root marked not expanded when the root is a container, the
\* sequence itself when the root is a scalar; and since every collapse in
\* the loop works on what the earlier ones left, at most one of them finds
\* its node and tracks node_collapsed.
C7_CollapseAllLeavesRoot ==
  nodes # <<>> =>
    LET result == collapseAllNodes(nodes)
        tracked == collapseAllNodesTracked(nodes)
    IN /\ Len(result) = 1
       /\ IF IsContainerType(ValueAt(<<>>).type)
          THEN result = <<[nodes[1] EXCEPT !.isExpanded = FALSE]>>
          ELSE result = nodes
       /\ Len(tracked) = IF IsContainerType(nodes[1].type) /\ nodes[1].isExpanded
                         THEN 2 ELSE 1
       /\ tracked[Len(tracked)].event = "collapse_all_nodes"

\* collapseAllNodes has just run on a sequence with two or more expanded
\* containers and left the root alone
C7_CollapsedSeveral ==
  /\ Len(events) >= 1
  /\ events[Len(events)].event = "collapse_all_nodes"
  /\ events[Len(events)].props.collapsedCount >= 2
  /\ Len(nodes) = 1
  /\ ~nodes[1].isExpanded

----------------------------------------------------------------------------
(* C8 and C9: what matches in the complete value *)

\* the key under which the position ref is visited
KeyAt(ref) ==
  IF ref = <<>> THEN RootKey
  ELSE ChildKey(SubSeq(ref, 1, Len(ref) - 1), ref[Len(ref)])

\* the path the traversals give the position ref
RECURSIVE PathAt(_)
PathAt(ref) ==
  IF ref = <<>> THEN RootKey
  ELSE PathAt(SubSeq(ref, 1, Len(ref) - 1)) \o "." \o KeyAt(ref)

Folded(s, caseSensitive) == IF caseSensitive THEN s ELSE toLowerCase(s)

\* the key or the scalar text at ref contains the query
MatchesAt(ref, query, caseSensitive) ==
  \/ includes(Folded(KeyAt(ref), caseSensitive), Folded(query, caseSensitive))
  \/ includes(Folded(getSearchableValue(ref), caseSensitive),
              Folded(query, caseSensitive))

MatchedPositions(query, caseSensitive) ==
  { ref \in Positions : MatchesAt(ref, query, caseSensitive) }

\* the searches the claims are about: a query that is not blank and
\* matches somewhere in the value
Searches ==
  { s \in [query : Queries, caseSensitive : BOOLEAN] :
      /\ ~IsBlank(s.query)
      /\ MatchedPositions(s.query, s.caseSensitive) # {} }

----------------------------------------------------------------------------
(* C8 *)

\* C8: for every search with a match, run on the sequence the client holds,
\* every entry of matchIndices is an index of the returned nodes whose node
\* has the path of a matched position, and every strict ancestor of every
\* matched position is among the returned nodes, marked expanded.
C8_SearchSuperset ==
  nodes # <<>> =>
    \A s \in Searches :
      LET r == searchNodes(nodes, s.query, s.caseSensitive)
          matched == MatchedPositions(s.query, s.caseSensitive)
          matchedPaths == { PathAt(m) : m \in matched }
          ancestors == { a \in Positions : \E m \in matched : IsStrictPrefix(a, m) }
      IN /\ \A k \in 1..Len(r.matchIndices) :
              /\ r.matchIndices[k] \in 0..(Len(r.nodes) - 1)
              /\ r.nodes[r.matchIndices[k] + 1].path \in matchedPaths
         /\ \A a \in ancestors :
              \E j \in 1..Len(r.nodes) :
                r.nodes[j].value = a /\ r.nodes[j].isExpanded

\* a search has just found a match of depth 3: its ancestor of depth 2 is
\* shown expanded
C8_FoundDeepMatch ==
  /\ Len(events) = 1
  /\ events[1].event = "search_performed"
  /\ \E k \in 1..Len(matchIndices) : nodes[matchIndices[k] + 1].depth >= 3

----------------------------------------------------------------------------
(* C9 *)

\* the positions of seq that match, in order
RECURSIVE MatchedInOrder(_, _, _)
MatchedInOrder(seq, query, caseSensitive) ==
  IF seq = <<>> THEN <<>>
  ELSE (IF MatchesAt(Head(seq), query, caseSensitive) THEN <<Head(seq)>> ELSE <<>>)
         \o MatchedInOrder(Tail(seq), query, caseSensitive)

\* C9, first part: a search run on the sequence the client holds returns
\* what it returns on the freshly flattened value.
SearchIgnoresExpansion ==
  nodes # <<>> =>
    \A s \in Searches :
      searchNodes(nodes, s.query, s.caseSensitive)
        = searchNodes(convertToNodes(RootKey), s.query, s.caseSensitive)

\* C9: a search with a match returns the same whatever the expansion state
\* of the sequence it is run on, and its matchIndices are strictly
\* increasing and point, one entry each, at the matching positions of the
\* complete value.
C9_SearchIgnoresExpansion ==
  /\ SearchIgnoresExpansion
  /\ nodes # <<>> =>
       \A s \in Searches :
         LET r == searchNodes(nodes, s.query, s.caseSensitive) IN
         /\ \A k \in 1..(Len(r.matchIndices) - 1) :
              r.matchIndices[k] < r.matchIndices[k + 1]
         /\ [k \in 1..Len(r.matchIndices) |-> r.nodes[r.matchIndices[k] + 1].value]
              = MatchedInOrder(PreOrder(<<>>), s.query, s.caseSensitive)

----------------------------------------------------------------------------
(* C10 *)

\* parseJson has just returned
Parsed == parseResult # NoResult /\ nodes = <<>>

\* the errorType tracked when a repair succeeds
FixedTypes ==
  {"json_auto_fixed", "json_aggressively_fixed", "json_extracted_and_fixed"}

\* the outcome of parseJson(input): which stage parsed it, if any
Outcome(input) ==
  IF input.blank THEN "empty"
  ELSE IF input.stage0 # Throws THEN "stage0"
  ELSE IF input.stage1 # Throws THEN "json_auto_fixed"
  ELSE IF input.stage2 # Throws THEN "json_aggressively_fixed"
  ELSE IF input.extracted /\ input.stage3 # Throws THEN "json_extracted_and_fixed"
  ELSE "failure"

\* C10 as stated: a parseJson call that returns for an input that is not
\* blank has tracked exactly one event.
C10_OneEventPerParse ==
  (Parsed /\ parseResult.error # "Input is empty") => Len(events) = 1

\* C10: parseJson tracks one event when Stage 0 parses the input
\* (json_parsed, wasFixed false) and one when every stage fails
\* (json_parse_error, final_parse_failure); two when a repair stage parses
\* it (json_parse_error with the errorType of that stage, then json_parsed,
\* wasFixed true); none for a blank input.  So the events a parse leaves
\* behind are one of these four lists, and tell the outcome.
C10_EventsTellOutcome ==
  /\ parseResult = NoResult =>
       \A input \in Inputs :
         LET tracked == parseJson(input).tracked
             outcome == Outcome(input)
         IN CASE outcome = "empty" -> tracked = <<>>
              [] outcome = "stage0" ->
                   /\ Len(tracked) = 1
                   /\ tracked[1].event = "json_parsed"
                   /\ ~tracked[1].props.wasFixed
              [] outcome = "failure" ->
                   tracked = <<ParseError("final_parse_failure")>>
              [] OTHER ->
                   /\ Len(tracked) = 2
                   /\ tracked[1] = ParseError(outcome)
                   /\ tracked[2].event = "json_parsed"
                   /\ tracked[2].props.wasFixed
  /\ Parsed =>
       IF parseResult.success
       THEN \/ /\ Len(events) = 1
               /\ events[1].event = "json_parsed"
               /\ ~events[1].props.wasFixed
            \/ /\ Len(events) = 2
               /\ \E t \in FixedTypes : events[1] = ParseError(t)
               /\ events[2].event = "json_parsed"
               /\ events[2].props.wasFixed
       ELSE IF parseResult.error = "Input is empty"
       THEN events = <<>>
       ELSE events = <<ParseError("final_parse_failure")>>

\* a parse has just succeeded after a repair and left two events
C10_ParsedAfterRepair ==
  /\ Parsed
  /\ parseResult.success
  /\ Len(events) = 2

----------------------------------------------------------------------------
(* C11 *)

\* C11: parseJson does not throw, whatever the input and whatever the
\* strict parser makes of it at each stage; it returns a ParseResult that is
\* either a success with data, a value, and no error, or a failure with an
\* error that is not empty and no data.
C11_StructuredResult ==
  /\ ~threw
  /\ parseResult # NoResult =>
       IF parseResult.success
       THEN /\ parseResult.data \notin {NoData, Throws}
            /\ parseResult.error = ""
       ELSE /\ parseResult.error # ""
            /\ parseResult.data = NoData

\* the strict parser threw at each of the four stages of a text
C11_FailedAtEveryStage ==
  /\ Parsed
  /\ inputText # ""
  /\ attempted = <<0, 1, 2, 3>>
  /\ ~parseResult.success

----------------------------------------------------------------------------
(* C12 *)

\* C12: when trackEvent throws at one of its call sites, no call of
\* parseJson, expandNode, collapseNode, expandAllNodes, collapseAllNodes or
\* searchNodes throws to the client, and a parse that the strict parser
\* accepted (json_parsed was tracked) still returns success.
C12_SinkFailureStaysInside ==
  /\ ~threw
  /\ (Parsed /\ \E i \in 1..Len(events) : events[i].event = "json_parsed")
       => parseResult.success

----------------------------------------------------------------------------
(* C13 *)

\* what parseJson returns for a blank input
EmptyResult ==
  [success |-> FALSE, data |-> NoData, error |-> "Input is empty",
   errorDetails |-> <<>>]

\* C13: for every input that is empty or white space only, parseJson returns
\* at once: success = false, the error "Input is empty", no errorDetails and
\* no data; no stage is attempted and nothing is tracked.
C13_EmptyInput ==
  /\ parseResult = NoResult =>
       \A text \in Texts :
         IsBlank(text) =>
           \A error \in ParserErrors(text) :
             parseJson(InputOf(text, error)) =
               [threw |-> FALSE, result |-> EmptyResult,
                tracked |-> <<>>, attempted |-> <<>>]
  /\ (Parsed /\ inputText # "" /\ IsBlank(inputText)) =>
       /\ parseResult = EmptyResult
       /\ attempted = <<>>
       /\ events = <<>>
       /\ ~threw

\* a text of newlines only has been parsed
C13_ParsedWhiteSpace ==
  /\ Parsed
  /\ inputText # ""
  /\ IsBlank(inputText)
  /\ parseResult.error = "Input is empty"

----------------------------------------------------------------------------
(* C14 *)

\* the text of each stage as C14 has it: the input, the input cleaned, the
\* cleaned input cleaned aggressively, and what is extracted from the input,
\* cleaned
StageTextOf(stage) ==
  CASE stage = 0 -> inputText
    [] stage = 1 -> cleanJsonString(inputText)
    [] stage = 2 -> aggressiveCleanup(cleanJsonString(inputText))
    [] stage = 3 -> cleanJsonString(arrayMatch(inputText)[1])

\* C14: parseJson attempts Stage 0, 1, 2, 3 in this order, each on the text
\* above; every stage before the last one attempted failed; on success the
\* value returned is what the strict parser made of the text of the last
\* stage attempted; on failure every applicable stage was attempted (Stage 3
\* only when something is extracted) and failed, and the result is the
\* first error, of Stage 0, located in the original input.
C14_StageOrder ==
  (Parsed /\ ~IsBlank(inputText)) =>
    LET n == Len(attempted) IN
    /\ n >= 1
    /\ attempted = SubSeq(<<0, 1, 2, 3>>, 1, n)
    /\ \A i \in 1..(n - 1) : strictParse(StageTextOf(attempted[i])) = Throws
    /\ IF parseResult.success
       THEN /\ strictParse(StageTextOf(attempted[n])) # Throws
            /\ parseResult.data = strictParse(StageTextOf(attempted[n]))
       ELSE /\ strictParse(StageTextOf(attempted[n])) = Throws
            /\ n = (IF arrayMatch(inputText) # NoText THEN 4 ELSE 3)
            /\ parseResult = getDetailedErrorFromBetterParser(firstError, inputText)

\* a text has been parsed at Stage 2, after Stage 0 and Stage 1 failed
C14_ParsedAfterAggressiveCleanup ==
  /\ Parsed
  /\ inputText # ""
  /\ parseResult.success
  /\ attempted = <<0, 1, 2>>

----------------------------------------------------------------------------
(* C15 *)

\* C15: in every failed ParseResult each field of errorDetails that is
\* present is in range, whichever locator produced it: line >= 1,
\* column >= 1 and 0 <= position <= length(input).
C15_LocationInRange ==
  (Parsed /\ ~parseResult.success /\ parseResult.errorDetails # <<>>) =>
    LET errorDetails == parseResult.errorDetails[1] IN
    /\ errorDetails.line # NoNumber => errorDetails.line[1] >= 1
    /\ errorDetails.column # NoNumber => errorDetails.column[1] >= 1
    /\ errorDetails.position # NoNumber =>
         /\ 0 <= errorDetails.position[1]
         /\ errorDetails.position[1] <= Len(inputText)

----------------------------------------------------------------------------
(* C16 *)

\* C16: in the sequence convertToNodes returns, a container node is expanded
\* exactly when its depth is less than 2; the nodes are, one each, the
\* positions of the value of depth at most 2, at their depth; and a
\* container of depth 2 is present, not expanded, and no node under it is
\* in the sequence.
C16_DefaultExpansion ==
  IsFresh =>
    /\ \A i \in 1..Len(nodes) :
         /\ nodes[i].depth = Len(nodes[i].value)
         /\ IsContainerType(nodes[i].type) =>
              (nodes[i].isExpanded <=> nodes[i].depth < 2)
    /\ { nodes[i].value : i \in 1..Len(nodes) }
         = { ref \in Positions : Len(ref) <= 2 }
    /\ \A i, j \in 1..Len(nodes) : i # j => nodes[i].value # nodes[j].value
    /\ \A i \in 1..Len(nodes) :
         (IsContainerType(nodes[i].type) /\ nodes[i].depth = 2) =>
           /\ ~nodes[i].isExpanded
           /\ \A j \in 1..Len(nodes) :
                ~IsStrictPrefix(nodes[i].value, nodes[j].value)

\* the value just flattened has a container at depth 2 with a child
C16_FlattenedDeepValue ==
  /\ IsFresh
  /\ events = <<>>
  /\ \E ref \in Positions : Len(ref) = 3

----------------------------------------------------------------------------
(* C17 *)

\* C17: for every container node t of the sequence the client holds that is
\* not expanded, at any depth, expandNode at the path of t puts directly
\* after t exactly t.childCount nodes, the children of t in key or index
\* order at depth t.depth + 1, none of them an expanded container, and
\* leaves the nodes before t and after t as they were.
C17_ExpandOneLevel ==
  \A i \in 1..Len(nodes) :
    (IsContainerType(nodes[i].type) /\ ~nodes[i].isExpanded) =>
      LET n == nodes[i].childCount[1]
          result == expandNode(nodes, nodes[i].path)
      IN /\ Len(result) = Len(nodes) + n
         /\ SubSeq(result, 1, i - 1) = SubSeq(nodes, 1, i - 1)
         /\ result[i] = [nodes[i] EXCEPT !.isExpanded = TRUE]
         /\ \A k \in 1..n :
              /\ result[i + k].value = Append(nodes[i].value, k)
              /\ result[i + k].depth = nodes[i].depth + 1
              /\ IsContainerType(result[i + k].type) => ~result[i + k].isExpanded
         /\ SubSeq(result, i + n + 1, Len(result)) = SubSeq(nodes, i + 1, Len(nodes))

----------------------------------------------------------------------------
(* C18 *)

\* C18: on the sequence the client holds, expandNode at a path that no node
\* has, or whose node is expanded, returns the sequence as it is and tracks
\* no event; so does collapseNode at a path that no node has or whose node
\* is not expanded.  Neither throws.
C18_EditorNoOps ==
  \A p \in TargetPaths :
    LET absent == \A i \in 1..Len(nodes) : nodes[i].path # p
        expanded == ~absent /\ nodes[FirstWithPath(nodes, p)].isExpanded
    IN /\ ~threw
       /\ (absent \/ expanded) =>
            /\ expandNode(nodes, p) = nodes
            /\ expandNodeTracked(nodes, p) = <<>>
       /\ (absent \/ ~expanded) =>
            /\ collapseNode(nodes, p) = nodes
            /\ collapseNodeTracked(nodes, p) = <<>>

\* the client holds a sequence that is not the fresh one, with an expanded
\* container and one that is not, after a call that tracked nothing
C18_CalledWithoutEffect ==
  /\ nodes # <<>>
  /\ ~IsFresh
  /\ events = <<>>
  /\ \E i, j \in 1..Len(nodes) :
       /\ IsContainerType(nodes[i].type) /\ nodes[i].isExpanded
       /\ IsContainerType(nodes[j].type) /\ ~nodes[j].isExpanded

----------------------------------------------------------------------------
(* C19 *)

\* C19: on the sequence the client holds, searchNodes with a query that is
\* empty or white space only returns the sequence as it is with no match
\* index and tracks nothing; with a query that no key and no scalar text of
\* the complete value contains, it returns the sequence as it is with no
\* match index and tracks one search_performed event whose result count
\* is 0.
C19_SearchWithoutMatch ==
  nodes # <<>> =>
    \A query \in Queries, caseSensitive \in BOOLEAN :
      LET unchanged == [nodes |-> nodes, matchIndices |-> <<>>] IN
      /\ IsBlank(query) =>
           /\ searchNodes(nodes, query, caseSensitive) = unchanged
           /\ searchNodesTracked(nodes, query, caseSensitive) = <<>>
      /\ (~IsBlank(query) /\ MatchedPositions(query, caseSensitive) = {}) =>
           /\ searchNodes(nodes, query, caseSensitive) = unchanged
           /\ searchNodesTracked(nodes, query, caseSensitive)
                = <<Event("search_performed", [searchResultCount |-> 0])>>

\* a search has just found nothing in a value with three levels, of which
\* the client holds a sequence that is not the fresh one
C19_SearchedInVain ==
  /\ nodes # <<>>
  /\ ~IsFresh
  /\ events = <<Event("search_performed", [searchResultCount |-> 0])>>
  /\ matchIndices = <<>>
  /\ \E ref \in Positions : Len(ref) = 2

----------------------------------------------------------------------------
(* C20 *)

\* C20: after any calls of convertToNodes, expandNode, collapseNode,
\* expandAllNodes, collapseAllNodes and searchNodes on one parser, getStats()
\* returns the statistics of the most recent convertToNodes call:
\* totalNodes, maxDepth, typeDistribution, arrayLengths and objectSizes are
\* those of flattening the value once from a reset.
C20_StatsOfLastConvert ==
  nodes # <<>> => getStats = recordNodes(NoStats, convertToNodes(RootKey), 1)

----------------------------------------------------------------------------
(* C21 *)

\* C21: expandNode, collapseNode and collapseAllNodes leave the sequence
\* they are given as it was before the call, the isExpanded flag of every
\* node object included: a caller that keeps the sequence finds it
\* unchanged.
C21_InputNotModified == retained.after = retained.before

----------------------------------------------------------------------------
(* C22 *)

\* C22: for every expanded container node t of the sequence the client
\* holds, collapseNode at the path of t returns the sequence without the
\* nodes that are descendants of t in the value, every other node kept in
\* its order (the following siblings of t too, whatever their keys), and t
\* marked not expanded.
C22_CollapseRemovesDescendants ==
  \A i \in 1..Len(nodes) :
    (IsContainerType(nodes[i].type) /\ nodes[i].isExpanded) =>
      LET result == collapseNode(nodes, nodes[i].path)
          kept == { j \in 1..Len(nodes) :
                      ~IsStrictPrefix(nodes[i].value, nodes[j].value) }
      IN /\ Len(result) = Cardinality(kept)
         /\ \A j \in kept :
              result[Cardinality({ k \in kept : k <= j })]
                = IF j = i THEN [nodes[j] EXCEPT !.isExpanded = FALSE]
                  ELSE nodes[j]

----------------------------------------------------------------------------
(* C23 *)

\* C23: in the sequence searchNodes returns for a query with a match, run
\* on the sequence the client holds, a container node is expanded exactly
\* when its position matches or is a strict ancestor of a position that
\* matches; the keys of the values include one with a '.'.
C23_SearchExpandsMinimalSet ==
  nodes # <<>> =>
    \A s \in Searches :
      LET r == searchNodes(nodes, s.query, s.caseSensitive)
          matched == MatchedPositions(s.query, s.caseSensitive)
      IN \A j \in 1..Len(r.nodes) :
           IsContainerType(r.nodes[j].type) =>
             (r.nodes[j].isExpanded <=>
                \/ r.nodes[j].value \in matched
                \/ \E m \in matched : IsStrictPrefix(r.nodes[j].value, m))

----------------------------------------------------------------------------
(* C24 *)

\* C24: whenever a failed ParseResult carries line, column and a position
\* within 0..length(input), line is 1 plus the number of newlines in
\* input[0:position] and column is 1 plus the number of characters from the
\* last newline before position (or from the start of the input) to
\* position, whether the parser or a manual scan located the error.
C24_LineColumnAgreeWithPosition ==
  (Parsed /\ ~parseResult.success /\ parseResult.errorDetails # <<>>) =>
    LET errorDetails == parseResult.errorDetails[1] IN
    (/\ errorDetails.line # NoNumber
     /\ errorDetails.column # NoNumber
     /\ errorDetails.position # NoNumber
     /\ errorDetails.position[1] \in 0..Len(inputText)) =>
      LET position == errorDetails.position[1]
          newlines == { k \in 1..position : CharAt(inputText, k) = "\n" }
          last == IF newlines = {} THEN 0
                  ELSE CHOOSE k \in newlines : \A n \in newlines : n <= k
      IN /\ errorDetails.line[1] = 1 + Cardinality(newlines)
         /\ errorDetails.column[1] = 1 + (position - last)

----------------------------------------------------------------------------
(* C25 *)

\* C25: in every state of the App, when searchMatchIndices is not empty
\* currentMatchIndex is an index of it (0-based); next from the last match
\* goes to the first, previous from the first goes to the last, and
\* previous after next comes back to the same index.
C25_NavigationWraps ==
  LET n == Len(app.searchMatchIndices)
      next == handleNavigateToNextMatch(app)
      prev == handleNavigateToPrevMatch(app)
  IN n > 0 =>
       /\ app.currentMatchIndex \in 0..(n - 1)
       /\ next.currentMatchIndex \in 0..(n - 1)
       /\ prev.currentMatchIndex \in 0..(n - 1)
       /\ app.currentMatchIndex = n - 1 => next.currentMatchIndex = 0
       /\ app.currentMatchIndex = 0 => prev.currentMatchIndex = n - 1
       /\ handleNavigateToPrevMatch(next).currentMatchIndex = app.currentMatchIndex

\* next has just gone round from the last of two or more matches to the
\* first
C25_WrappedToFirst ==
  /\ Len(app.searchMatchIndices) >= 2
  /\ app.currentMatchIndex = 0
  /\ events = <<Event("search_navigation", [direction |-> "next"])>>

----------------------------------------------------------------------------
(* C27 *)

\* C27: in every state of the App, every entry of searchMatchIndices is an
\* index (0-based) of filteredNodes, and the key or the scalar text of the
\* node at that index contains searchQuery, in the same or in another case.
C27_MatchIndicesNotStale ==
  \A k \in 1..Len(app.searchMatchIndices) :
    LET nodeIndex == app.searchMatchIndices[k] IN
    /\ nodeIndex \in 0..(Len(app.filteredNodes) - 1)
    /\ MatchesAt(app.filteredNodes[nodeIndex + 1].value, app.searchQuery, FALSE)

----------------------------------------------------------------------------
(* C28 *)

\* C28: in every state of the App that shows the sequence as expanded and
\* collapsed by hand (no query, filteredNodes = originalNodes), a search
\* with a query that is not blank and has matches, followed by handleSearch
\* with the empty string, leaves filteredNodes equal to the sequence shown
\* before the search (the same rows, the same containers with children expanded); and
\* while the query is set handleToggleNode changes nothing.
C28_ClearRestoresManualView ==
  (Rendered /\ app.searchQuery = "" /\ app.filteredNodes = app.originalNodes) =>
    \A query \in Queries :
      LET searched == handleSearch(app, query, app.caseSensitive)
          cleared == handleSearch(searched, "", app.caseSensitive)
      IN (~IsBlank(query) /\ Len(searched.searchMatchIndices) > 0) =>
           /\ Len(cleared.filteredNodes) = Len(app.filteredNodes)
           /\ \A i \in 1..Len(app.filteredNodes) :
                /\ cleared.filteredNodes[i].path = app.filteredNodes[i].path
                /\ (IsContainerType(app.filteredNodes[i].type)
                      /\ app.filteredNodes[i].childCount # <<>>
                      /\ app.filteredNodes[i].childCount[1] > 0) =>
                     cleared.filteredNodes[i].isExpanded = app.filteredNodes[i].isExpanded
           /\ \A i \in 1..Len(searched.filteredNodes) :
                handleToggleNode(searched, searched.filteredNodes[i].path) = searched

----------------------------------------------------------------------------
(* C26 *)

\* C26: in every sequence the client holds after convertToNodes and any
\* number of expandNode, collapseNode, expandAllNodes, collapseAllNodes and
\* searchNodes calls, a container with isExpanded = TRUE is followed at once
\* by its children, childCount of them in key/index order (each followed by
\* its own deeper nodes), and a container with isExpanded = FALSE has no
\* descendant in the sequence.
C26_ExpandedIffMaterialized ==
  \A i \in 1..Len(nodes) :
    IsContainerType(nodes[i].type) =>
      LET node == nodes[i]
          under == { j \in (i + 1)..Len(nodes) :
                       \A k \in (i + 1)..j : nodes[k].depth > node.depth }
          children == { j \in under : nodes[j].depth = node.depth + 1 }
      IN IF node.isExpanded
         THEN /\ node.childCount # <<>>
              /\ Cardinality(children) = node.childCount[1]
              /\ \A j \in children :
                   nodes[j].value =
                     Append(node.value, Cardinality({k \in children : k <= j}))
         ELSE \A j \in 1..Len(nodes) : ~IsStrictPrefix(node.value, nodes[j].value)

----------------------------------------------------------------------------
(* C29 *)

\* C29: for every text and every errorDetails parseJson returns for it, the
\* selection handleJumpToError computes lies inside the text:
\* 0 <= selectionStart <= selectionEnd <= length(text).
C29_SelectionInsideText ==
  (Parsed /\ ~parseResult.success /\ parseResult.errorDetails # <<>>) =>
    LET selection == handleJumpToError(inputText, parseResult.errorDetails[1])
    IN selection # NoSelection =>
         /\ 0 <= selection[1].selectionStart
         /\ selection[1].selectionStart <= selection[1].selectionEnd
         /\ selection[1].selectionEnd <= Len(inputText)

----------------------------------------------------------------------------
(* C30 *)

\* C30: right after nodes = convertToNodes(v), getStats() describes nodes:
\* totalNodes is its length, maxDepth its largest depth, typeDistribution
\* counts its nodes by type (0 for a type without a key) and so sums to
\* totalNodes, and arrayLengths and objectSizes are the childCounts of its
\* array nodes and of its object nodes, in their order.
C30_StatsDescribeNodes ==
  [][ConvertToNodesCounted =>
       LET arrays == { i \in 1..Len(nodes') : nodes'[i].type = "array" }
           objects == { i \in 1..Len(nodes') : nodes'[i].type = "object" }
       IN /\ getStats'.totalNodes = Len(nodes')
          /\ \A i \in 1..Len(nodes') : nodes'[i].depth <= getStats'.maxDepth
          /\ \E i \in 1..Len(nodes') : nodes'[i].depth = getStats'.maxDepth
          /\ \A t \in DOMAIN getStats'.typeDistribution :
               getStats'.typeDistribution[t] =
                 Cardinality({ i \in 1..Len(nodes') : nodes'[i].type = t })
          /\ \A i \in 1..Len(nodes') : nodes'[i].type \in DOMAIN getStats'.typeDistribution
          /\ Len(getStats'.arrayLengths) = Cardinality(arrays)
          /\ \A i \in arrays :
               getStats'.arrayLengths[Cardinality({k \in arrays : k <= i})] =
                 nodes'[i].childCount[1]
          /\ Len(getStats'.objectSizes) = Cardinality(objects)
          /\ \A i \in objects :
               getStats'.objectSizes[Cardinality({k \in objects : k <= i})] =
                 nodes'[i].childCount[1]]_vars

\* convertToNodes has just returned three levels with an array and an
\* object among them
C30_CountedThreeLevels ==
  /\ IsFresh
  /\ events = <<>>
  /\ getStats.totalNodes = Len(nodes)
  /\ getStats.maxDepth = 2
  /\ getStats.arrayLengths # <<>>
  /\ getStats.objectSizes # <<>>

====
